---- MODULE Spec2Model ----
(***************************************************************************)
(* CGATS-to-JSON converter (cgatsToJsonGUI.py): the line scanner           *)
(* parse_descriptive_and_formats, key inference and parse_rows of          *)
(* parse_cgats_text, the enrichment of App.process and to_json; and the    *)
(* loader (loadJson.py): process_file on one payload and its database.     *)
(* The command-line converter (cgatsToJson.py): parse_descriptive_lines,   *)
(* extract_keys_and_data and convert_values.  The output file of           *)
(* App.process: sanitize_filename, next_available_path and the overwrite   *)
(* question.                                                               *)
(*                                                                         *)
(* Spec is one conversion run, ScanSpec the scanner alone on longer        *)
(* inputs, EnrichSpec repeated enrichment runs on the descriptive maps a   *)
(* parse can return, LoaderSpec one load into an empty database.           *)
(* DescribeSpec and ExtractSpec are one call of parse_descriptive_lines    *)
(* and of extract_keys_and_data, ConvertSpec one call of convert_values,   *)
(* FileSpec the choice of the output file of one run.                      *)
(*                                                                         *)
(* A string is a sequence of one-character strings, so that strip, split,  *)
(* upper, startswith and the regular expressions are computed character    *)
(* by character as the code computes them.  A dict is a function whose     *)
(* DOMAIN is its key set.                                                  *)
(***************************************************************************)
EXTENDS Integers, Sequences, FiniteSets, TLC

\* the converter (cgatsToJsonGUI.py)
VARIABLES pc, nread, line, in_df, in_data, descriptive, keys,
          buffer_after_begin_data, ri, rows, measurement_uuid, payload, form

\* the loader (loadJson.py) and its database
VARIABLES lpc, data, guid_final, cleaned_measurements, li,
          db_descriptive, db_measurement

loaderVars == <<lpc, data, guid_final, cleaned_measurements, li,
                db_descriptive, db_measurement>>

\* the command-line converter (cgatsToJson.py): parse_descriptive_lines and
\* extract_keys_and_data, each reading a file line by line
VARIABLES cpc, cread, keys_array, values, bdf,
          keys_local, data_local, is_parsing_keys, is_parsing_data

cliVars == <<cpc, cread, keys_array, values, bdf,
             keys_local, data_local, is_parsing_keys, is_parsing_data>>

\* the output file of App.process: the filename field, the name the
\* application holds, the session-wide replace option, the names that
\* exist in the output folder, the user's answer to the overwrite question
\* and the name the payload was written to
VARIABLES fpc, filename_var, output_filename, replace_all_var, exists,
          overwrite, target_path

fileVars == <<fpc, filename_var, output_filename, replace_all_var, exists,
              overwrite, target_path>>

vars == <<pc, nread, line, in_df, in_data, descriptive, keys,
          buffer_after_begin_data, ri, rows, measurement_uuid, payload, form,
          loaderVars, cliVars, fileVars>>

----------------------------------------------------------------------------
(* Bounds *)

\* number of input lines one run reads
MaxLines == 4

\* number of input lines of the longer inputs the scanner is run on alone
MaxScanLines == 5

----------------------------------------------------------------------------
(* Characters and string primitives *)

LowerLetters == <<"a", "b", "c", "d", "e", "f", "g", "h", "i", "j", "k", "l", "m",
                  "n", "o", "p", "q", "r", "s", "t", "u", "v", "w", "x", "y", "z">>

UpperLetters == <<"A", "B", "C", "D", "E", "F", "G", "H", "I", "J", "K", "L", "M",
                  "N", "O", "P", "Q", "R", "S", "T", "U", "V", "W", "X", "Y", "Z">>

Digits == <<"0", "1", "2", "3", "4", "5", "6", "7", "8", "9">>

SeqRange(s) == {s[i] : i \in 1..Len(s)}

\* str.isspace for the characters a line can hold (line ends are removed
\* by splitlines)
IsSpace(c) == c \in {" ", "\t"}

\* one character of str.upper
UpperChar(c) ==
    IF c \in SeqRange(LowerLetters)
    THEN UpperLetters[CHOOSE i \in 1..Len(LowerLetters) : LowerLetters[i] = c]
    ELSE c

\* str.upper
Upper(s) == [i \in 1..Len(s) |-> UpperChar(s[i])]

\* number of leading whitespace characters of s
RECURSIVE LeadingSpaces(_)
LeadingSpaces(s) ==
    IF s = <<>> \/ ~IsSpace(Head(s)) THEN 0 ELSE 1 + LeadingSpaces(Tail(s))

\* number of trailing whitespace characters of s
RECURSIVE TrailingSpaces(_)
TrailingSpaces(s) ==
    IF s = <<>> \/ ~IsSpace(s[Len(s)]) THEN 0
    ELSE 1 + TrailingSpaces(SubSeq(s, 1, Len(s) - 1))

\* str.lstrip
LStrip(s) == SubSeq(s, LeadingSpaces(s) + 1, Len(s))

\* str.strip
Strip(s) ==
    LET t == LStrip(s) IN SubSeq(t, 1, Len(t) - TrailingSpaces(t))

\* str.startswith
StartsWith(s, p) == Len(s) >= Len(p) /\ SubSeq(s, 1, Len(p)) = p

\* length of the leading run of non-whitespace characters of s
RECURSIVE TokenLen(_)
TokenLen(s) ==
    IF s = <<>> \/ IsSpace(Head(s)) THEN 0 ELSE 1 + TokenLen(Tail(s))

\* str.split() with no argument: the whitespace-separated tokens of s
RECURSIVE Split(_)
Split(s) ==
    LET t == LStrip(s) IN
    IF t = <<>> THEN <<>>
    ELSE LET n == TokenLen(t) IN
         <<SubSeq(t, 1, n)>> \o Split(SubSeq(t, n + 1, Len(t)))

\* str(i) for a natural number i
RECURSIVE IntToStr(_)
IntToStr(i) ==
    IF i < 10 THEN <<Digits[i + 1]>>
    ELSE IntToStr(i \div 10) \o <<Digits[(i % 10) + 1]>>

----------------------------------------------------------------------------
(* Regular expressions and markers *)

\* variant of COMMENT_RE without the // alternative
COMMENT_RE_NoSlashes(s) ==
    LET t == LStrip(s) IN
    /\ t # <<>>
    /\ t[1] \in {"#", ";", "*"}

\* COMMENT_RE = ^\s*(?:#|//|;|\*)   (re.match: anchored at the start)
COMMENT_RE(s) ==
    LET t == LStrip(s) IN
    /\ t # <<>>
    /\ \/ t[1] \in {"#", ";", "*"}
       \/ StartsWith(t, <<"/", "/">>)

\* WS_ONLY_RE = ^\s*$
WS_ONLY_RE(s) == LStrip(s) = <<>>

\* the character class [A-Za-z0-9_./-] of CGATS_KV_RE
IsKeyChar(c) ==
    \/ c \in SeqRange(LowerLetters)
    \/ c \in SeqRange(UpperLetters)
    \/ c \in SeqRange(Digits)
    \/ c \in {"_", ".", "/", "-"}

\* length of the leading run of key characters of s
RECURSIVE KeyRunLen(_)
KeyRunLen(s) ==
    IF s = <<>> \/ ~IsKeyChar(Head(s)) THEN 0 ELSE 1 + KeyRunLen(Tail(s))

\* CGATS_KV_RE = ^\s*([A-Za-z0-9_./-]+)\s*[:=]\s*(.*?)\s*$ on s:
\* [matched, k (group 1), v (group 2)].  The key class holds no whitespace
\* and no separator, so group 1 is the whole leading run of key characters.
CGATS_KV_RE(s) ==
    LET t    == LStrip(s)
        n    == KeyRunLen(t)
        rest == LStrip(SubSeq(t, n + 1, Len(t)))
    IN  IF n >= 1 /\ rest # <<>> /\ rest[1] \in {":", "="}
        THEN [matched |-> TRUE, k |-> SubSeq(t, 1, n),
              v |-> Strip(SubSeq(rest, 2, Len(rest)))]
        ELSE [matched |-> FALSE, k |-> <<>>, v |-> <<>>]

BEGIN_DATA_FORMAT == <<"B", "E", "G", "I", "N", "_", "D", "A", "T", "A", "_",
                       "F", "O", "R", "M", "A", "T">>

END_DATA_FORMAT == <<"E", "N", "D", "_", "D", "A", "T", "A", "_",
                     "F", "O", "R", "M", "A", "T">>

BEGIN_DATA == <<"B", "E", "G", "I", "N", "_", "D", "A", "T", "A">>

END_DATA == <<"E", "N", "D", "_", "D", "A", "T", "A">>

MEASUREMENT_ID == <<"M", "E", "A", "S", "U", "R", "E", "M", "E", "N", "T", "_", "I", "D">>

PARSED_DATE == <<"P", "A", "R", "S", "E", "D", "_", "D", "A", "T", "E">>

PROJECT == <<"P", "R", "O", "J", "E", "C", "T">>

TEMPLATE == <<"T", "E", "M", "P", "L", "A", "T", "E">>

MEASUREMENT_DATE == <<"M", "E", "A", "S", "U", "R", "E", "M", "E", "N", "T", "_",
                      "D", "A", "T", "E">>

NONE == <<"N", "O", "N", "E">>

----------------------------------------------------------------------------
(* Dicts *)

EmptyDict == <<>>

\* d[k] = v
DictSet(d, k, v) ==
    [x \in (DOMAIN d) \cup {k} |-> IF x = k THEN v ELSE d[x]]

\* d.setdefault(k, v)
SetDefault(d, k, v) == IF k \in DOMAIN d THEN d ELSE DictSet(d, k, v)

----------------------------------------------------------------------------
(* Inputs *)

\* the lines an input file is made of
BlankLine == <<" ">>

CommentLine == <<"/", "/", "a", ":", " ", "b">>

HashComment == <<" ", "#", "c">>

KvLine == <<"a", ":", " ", "x">>

KvLineAgain == <<" ", "A", " ", "=", "y", " ">>

MidLine == <<"M", "E", "A", "S", "U", "R", "E", "M", "E", "N", "T", "_", "I", "D", ":", "m">>

MdateLine == <<"M", "E", "A", "S", "U", "R", "E", "M", "E", "N", "T", "_",
               "D", "A", "T", "E", "=", "d">>

BeginFormatLine == <<" ", "b", "e", "g", "i", "n", "_", "d", "a", "t", "a", "_",
                     "f", "o", "r", "m", "a", "t">>

EndFormatLine == END_DATA_FORMAT

BeginDataLine == BEGIN_DATA

EndDataLine == <<"e", "n", "d", "_", "d", "a", "t", "a", " ">>

TwoTokens == <<"a", " ", "b">>

TwoSameTokens == <<"a", " ", "A">>

ThreeTokens == <<"m", "e", "a", "s", "u", "r", "e", "m", "e", "n", "t", "_", "i", "d",
                 " ", "2", "\t", " ", "3">>

LinePool ==
    {BlankLine, CommentLine, HashComment, KvLine, KvLineAgain, MidLine, MdateLine,
     BeginFormatLine, EndFormatLine, BeginDataLine, EndDataLine,
     TwoTokens, TwoSameTokens, ThreeTokens}

\* str(uuid.uuid4()) of a run
UUIDs == {<<"u", "1">>, <<"u", "2">>}

\* date.today().isoformat()
Today == <<"t", "0">>

\* what the Project, Template and Measurement Date fields of the form hold
FormInputs ==
    {[project |-> <<>>, template |-> <<" ">>, mdate |-> <<>>],
     [project |-> <<"P", " ">>, template |-> <<"T">>, mdate |-> <<" ", "d", "1">>]}

----------------------------------------------------------------------------
(* parse_descriptive_and_formats: one iteration per input line *)

\* iter_nonempty_lines: raw.rstrip("\r\n").  The lines come from
\* str.splitlines, which splits at every \r and \n, so none holds a line
\* end and nothing is removed.
NoLineEnd(raw) == raw

\* u.upper().startswith("BEGIN_DATA_FORMAT")
IsBeginDataFormat(u) == StartsWith(Upper(u), BEGIN_DATA_FORMAT)

\* u.upper().startswith("BEGIN_DATA")
IsBeginData(u) == StartsWith(Upper(u), BEGIN_DATA)

\* u.upper().startswith("END_DATA_FORMAT")
IsEndDataFormat(u) == StartsWith(Upper(u), END_DATA_FORMAT)

\* variant of StoreDescriptive that keeps the first value of a repeated key
StoreDescriptiveFirstWins(d, k, v) == SetDefault(d, Upper(Strip(k)), Strip(v))

\* descriptive[k.strip().upper()] = v.strip()
StoreDescriptive(d, k, v) == DictSet(d, Upper(Strip(k)), Strip(v))

\* variant of ExtendKeys that appends a name only if keys does not hold it
RECURSIVE ExtendKeysNoDuplicates(_, _)
ExtendKeysNoDuplicates(ks, u) ==
    LET parts == Split(u) IN
    IF parts = <<>> THEN ks
    ELSE LET k    == Upper(Strip(parts[1]))
             rest == SubSeq(u, LeadingSpaces(u) + Len(parts[1]) + 1, Len(u))
         IN  ExtendKeysNoDuplicates(IF k \in SeqRange(ks) THEN ks ELSE Append(ks, k),
                                    rest)

\* keys.extend([p.strip().upper() for p in parts if p.strip()])
ExtendKeys(ks, u) ==
    LET parts == Split(u)
        kept  == SelectSeq(parts, LAMBDA p : Strip(p) # <<>>)
    IN  ks \o [i \in 1..Len(kept) |-> Upper(Strip(kept[i]))]

\* variant of ScanHeader that tests the shorter marker BEGIN_DATA first
ScanHeaderShortFirst(l, u) ==
    IF IsBeginData(u)
    THEN /\ in_data' = TRUE
         /\ UNCHANGED <<in_df, descriptive, keys, buffer_after_begin_data>>
    ELSE IF IsBeginDataFormat(u)
    THEN /\ in_df' = TRUE
         /\ UNCHANGED <<in_data, descriptive, keys, buffer_after_begin_data>>
    ELSE LET m == CGATS_KV_RE(l) IN
         /\ descriptive' = IF m.matched THEN StoreDescriptive(descriptive, m.k, m.v)
                           ELSE descriptive
         /\ UNCHANGED <<in_df, in_data, keys, buffer_after_begin_data>>

\* the header branch, lines 72-86
ScanHeader(l, u) ==
    IF IsBeginDataFormat(u)
    THEN /\ in_df' = TRUE
         /\ UNCHANGED <<in_data, descriptive, keys, buffer_after_begin_data>>
    ELSE IF IsBeginData(u)
    THEN /\ in_data' = TRUE
         /\ UNCHANGED <<in_df, descriptive, keys, buffer_after_begin_data>>
    ELSE LET m == CGATS_KV_RE(l) IN
         /\ descriptive' = IF m.matched THEN StoreDescriptive(descriptive, m.k, m.v)
                           ELSE descriptive
         /\ UNCHANGED <<in_df, in_data, keys, buffer_after_begin_data>>

\* variant of ScanFormat in which only END_DATA_FORMAT closes the format
\* block
ScanFormatExplicitEndOnly(l, u) ==
    IF IsEndDataFormat(u)
    THEN /\ in_df' = FALSE
         /\ UNCHANGED <<in_data, descriptive, keys, buffer_after_begin_data>>
    ELSE /\ keys' = IF u # <<>> /\ ~COMMENT_RE(u) THEN ExtendKeys(keys, u) ELSE keys
         /\ UNCHANGED <<in_df, in_data, descriptive, buffer_after_begin_data>>

\* the data-format branch, lines 88-100
ScanFormat(l, u) ==
    IF IsEndDataFormat(u)
    THEN /\ in_df' = FALSE
         /\ UNCHANGED <<in_data, descriptive, keys, buffer_after_begin_data>>
    ELSE IF IsBeginData(u)
    THEN /\ in_df' = FALSE
         /\ in_data' = TRUE
         /\ UNCHANGED <<descriptive, keys, buffer_after_begin_data>>
    ELSE /\ keys' = IF u # <<>> /\ ~COMMENT_RE(u) THEN ExtendKeys(keys, u) ELSE keys
         /\ UNCHANGED <<in_df, in_data, descriptive, buffer_after_begin_data>>

\* variant of ScanData that buffers the stripped line
ScanDataStripped(l, u) ==
    /\ buffer_after_begin_data' = Append(buffer_after_begin_data, u)
    /\ UNCHANGED <<in_df, in_data, descriptive, keys>>

\* the data branch, lines 102-103
ScanData(l, u) ==
    /\ buffer_after_begin_data' = Append(buffer_after_begin_data, l)
    /\ UNCHANGED <<in_df, in_data, descriptive, keys>>

\* one iteration of the for loop of parse_descriptive_and_formats on the
\* next input line, of an input of at most bound lines
ScanStep(raw, bound) ==
    /\ pc = "scan"
    /\ nread < bound
    /\ nread' = nread + 1
    /\ line' = NoLineEnd(raw)
    /\ LET l == NoLineEnd(raw)
           u == Strip(l)
       IN  IF ~in_df /\ ~in_data /\ (COMMENT_RE(u) \/ WS_ONLY_RE(u))
           THEN UNCHANGED <<in_df, in_data, descriptive, keys, buffer_after_begin_data>>
           ELSE IF ~in_df /\ ~in_data THEN ScanHeader(l, u)
           ELSE IF in_df /\ ~in_data THEN ScanFormat(l, u)
           ELSE IF in_data THEN ScanData(l, u)
           ELSE UNCHANGED <<in_df, in_data, descriptive, keys, buffer_after_begin_data>>
    /\ UNCHANGED <<pc, ri, rows, measurement_uuid, payload,
                   form, loaderVars, cliVars, fileVars>>

\* the loop on the inputs of the conversion
ScanLine(raw) == ScanStep(raw, MaxLines)

\* the input is exhausted: parse_descriptive_and_formats returns
EndOfInput ==
    /\ pc = "scan"
    /\ pc' = "infer"
    /\ UNCHANGED <<nread, line, in_df, in_data, descriptive, keys,
                   buffer_after_begin_data, ri, rows, measurement_uuid, payload,
                   form, loaderVars, cliVars, fileVars>>

----------------------------------------------------------------------------
(* parse_cgats_text: key inference *)

\* variant of InferFromLine that infers from a comment line too
InferFromLineAnyText(s) ==
    s # <<>> /\ ~StartsWith(Upper(s), END_DATA)

\* s and not COMMENT_RE.match(s) and not s.upper().startswith("END_DATA")
InferFromLine(s) ==
    s # <<>> /\ ~COMMENT_RE(s) /\ ~StartsWith(Upper(s), END_DATA)

\* [f"C{i+1}" for i in range(n)]
PositionalKeys(n) == [i \in 1..n |-> <<"C">> \o IntToStr(i)]

\* variant of InferLoop that infers from the last such line of the buffer
RECURSIVE InferLoopFromEnd(_, _)
InferLoopFromEnd(buf, i) ==
    IF i > Len(buf) THEN <<>>
    ELSE LET s    == Strip(buf[i])
             rest == InferLoopFromEnd(buf, i + 1)
         IN  IF rest # <<>> THEN rest
             ELSE IF InferFromLine(s) THEN PositionalKeys(Len(Split(s)))
             ELSE <<>>

\* the for loop of lines 138-144 from buffered line i on
RECURSIVE InferLoop(_, _)
InferLoop(buf, i) ==
    IF i > Len(buf) THEN <<>>
    ELSE LET s == Strip(buf[i]) IN
         IF InferFromLine(s) THEN PositionalKeys(Len(Split(s)))
         ELSE InferLoop(buf, i + 1)

\* variant of ResolveKeys without the fallback inference
ResolveKeysDeclaredOnly(ks, buf) == ks

\* lines 136-144: the keys parse_rows is given
ResolveKeys(ks, buf) == IF ks = <<>> THEN InferLoop(buf, 1) ELSE ks

InferKeys ==
    /\ pc = "infer"
    /\ keys' = ResolveKeys(keys, buffer_after_begin_data)
    /\ ri' = 1
    /\ pc' = "rows"
    /\ UNCHANGED <<nread, line, in_df, in_data, descriptive,
                   buffer_after_begin_data, rows, measurement_uuid, payload,
                   form, loaderVars, cliVars, fileVars>>

----------------------------------------------------------------------------
(* parse_rows: one iteration per buffered line *)

\* variant of IsEndData that compares without upper-casing
IsEndDataCaseSensitive(u) == StartsWith(u, END_DATA)

\* up.startswith("END_DATA")
IsEndData(u) == StartsWith(Upper(u), END_DATA)

\* variant of RepairCols that keeps the last n columns of a long row and pads
\* a short row at the front
RepairColsKeepLast(cols, n) ==
    IF Len(cols) < n THEN [i \in 1..(n - Len(cols)) |-> <<>>] \o cols
    ELSE IF Len(cols) > n THEN SubSeq(cols, Len(cols) - n + 1, Len(cols))
    ELSE cols

\* variant of RepairCols that truncates long rows and leaves short rows short
RepairColsNoPad(cols, n) ==
    IF Len(cols) > n THEN SubSeq(cols, 1, n) ELSE cols

\* lines 123-126: pad with "" or truncate to n columns
RepairCols(cols, n) ==
    IF Len(cols) < n THEN cols \o [i \in 1..(n - Len(cols)) |-> <<>>]
    ELSE IF Len(cols) > n THEN SubSeq(cols, 1, n)
    ELSE cols

Min(a, b) == IF a < b THEN a ELSE b

\* variant of ZipRow in which the first pair of a repeated key is kept
ZipRowFirstWins(ks, cols) ==
    LET n == IF Len(ks) < Len(cols) THEN Len(ks) ELSE Len(cols) IN
    [k \in {ks[i] : i \in 1..n} |->
        cols[CHOOSE i \in 1..n : ks[i] = k /\ \A j \in 1..n : ks[j] = k => i <= j]]

\* {k: v for k, v in zip(keys, cols)}: zip stops at the shorter sequence and
\* a later pair replaces an earlier one with the same key
ZipRow(ks, cols) ==
    LET n == Min(Len(ks), Len(cols)) IN
    [k \in {ks[i] : i \in 1..n} |->
        cols[CHOOSE i \in 1..n : ks[i] = k /\ \A j \in 1..n : ks[j] = k => j <= i]]

\* lines 120-129: the row of data line u
MakeRow(ks, u) == ZipRow(ks, RepairCols(Split(u), Len(ks)))

\* variant of ParseRowsStep that raises (zip(..., strict=True)) on a row whose
\* column count differs from the key count
ParseRowsStepStrict ==
    /\ pc = "rows"
    /\ ri <= Len(buffer_after_begin_data)
    /\ LET u == Strip(buffer_after_begin_data[ri]) IN
       IF u = <<>>
       THEN /\ ri' = ri + 1
            /\ UNCHANGED <<pc, rows>>
       ELSE IF IsEndData(u)
       THEN /\ pc' = "parsed"
            /\ UNCHANGED <<ri, rows>>
       ELSE IF COMMENT_RE(u)
       THEN /\ ri' = ri + 1
            /\ UNCHANGED <<pc, rows>>
       ELSE IF Len(Split(u)) # Len(keys)
       THEN /\ pc' = "error"
            /\ UNCHANGED <<ri, rows>>
       ELSE /\ rows' = Append(rows, MakeRow(keys, u))
            /\ ri' = ri + 1
            /\ UNCHANGED pc
    /\ UNCHANGED <<nread, line, in_df, in_data, descriptive, keys,
                   buffer_after_begin_data, measurement_uuid, payload,
                   form, loaderVars, cliVars, fileVars>>

ParseRowsStep ==
    /\ pc = "rows"
    /\ ri <= Len(buffer_after_begin_data)
    /\ LET u == Strip(buffer_after_begin_data[ri]) IN
       IF u = <<>>
       THEN /\ ri' = ri + 1
            /\ UNCHANGED <<pc, rows>>
       ELSE IF IsEndData(u)
       THEN /\ pc' = "parsed"
            /\ UNCHANGED <<ri, rows>>
       ELSE IF COMMENT_RE(u)
       THEN /\ ri' = ri + 1
            /\ UNCHANGED <<pc, rows>>
       ELSE /\ rows' = Append(rows, MakeRow(keys, u))
            /\ ri' = ri + 1
            /\ UNCHANGED pc
    /\ UNCHANGED <<nread, line, in_df, in_data, descriptive, keys,
                   buffer_after_begin_data, measurement_uuid, payload,
                   form, loaderVars, cliVars, fileVars>>

\* the buffered lines are exhausted: parse_rows and parse_cgats_text return
ParseRowsReturn ==
    /\ pc = "rows"
    /\ ri > Len(buffer_after_begin_data)
    /\ pc' = "parsed"
    /\ UNCHANGED <<nread, line, in_df, in_data, descriptive, keys,
                   buffer_after_begin_data, ri, rows, measurement_uuid, payload,
                   form, loaderVars, cliVars, fileVars>>

----------------------------------------------------------------------------
(* App.process: enrichment, and to_json *)

\* lines 439-447: the measurement date of the run
MeasurementDate(mdate_var) ==
    IF Strip(mdate_var) # <<>> THEN Strip(mdate_var) ELSE Today

\* variant of FieldOrNone without the strip and the second fallback
FieldOrNoneUnstripped(var) == IF var # <<>> THEN var ELSE NONE

\* (var.get() or "NONE").strip(), then "NONE" if that is empty
FieldOrNone(var) ==
    LET s == Strip(IF var # <<>> THEN var ELSE NONE) IN
    IF s # <<>> THEN s ELSE NONE

\* variant of EnrichDescriptive that assigns PROJECT and TEMPLATE instead of
\* setting their defaults
EnrichDescriptiveAssign(desc, uuid, project_var, template_var, mdate) ==
    LET d1 == SetDefault(desc, MEASUREMENT_ID, uuid)
        d2 == SetDefault(d1, PARSED_DATE, Today)
        d3 == DictSet(d2, PROJECT, FieldOrNone(project_var))
        d4 == DictSet(d3, TEMPLATE, FieldOrNone(template_var))
    IN  DictSet(d4, MEASUREMENT_DATE, mdate)

\* lines 494-501 on the parsed descriptive map
EnrichDescriptive(desc, uuid, project_var, template_var, mdate) ==
    LET d1 == SetDefault(desc, MEASUREMENT_ID, uuid)
        d2 == SetDefault(d1, PARSED_DATE, Today)
        d3 == SetDefault(d2, PROJECT, FieldOrNone(project_var))
        d4 == SetDefault(d3, TEMPLATE, FieldOrNone(template_var))
    IN  DictSet(d4, MEASUREMENT_DATE, mdate)

\* variant of StampRow that keeps a MEASUREMENT_ID the row already holds
StampRowKeepExisting(r, uuid) == SetDefault(r, MEASUREMENT_ID, uuid)

\* variant of StampRow that copies the row and stamps nothing
StampRowCopyOnly(r, uuid) == r

\* rr = dict(r); rr["MEASUREMENT_ID"] = measurement_uuid
StampRow(r, uuid) == DictSet(r, MEASUREMENT_ID, uuid)

\* to_json
to_json(desc, rs, uuid) ==
    [descriptive_data |-> desc,
     measurement_data |-> [i \in 1..Len(rs) |-> StampRow(rs[i], uuid)]]

\* App.process after the parse, lines 493-503: a fresh identifier, the
\* enrichment of result.descriptive in place, and the payload
Process ==
    /\ pc = "parsed"
    /\ \E uuid \in UUIDs, f \in FormInputs :
          LET desc == EnrichDescriptive(descriptive, uuid, f.project,
                                        f.template, MeasurementDate(f.mdate))
          IN  /\ measurement_uuid' = uuid
              /\ form' = f
              /\ descriptive' = desc
              /\ payload' = to_json(desc, rows, uuid)
    /\ pc' = "done"
    /\ UNCHANGED <<nread, line, in_df, in_data, keys, buffer_after_begin_data,
                   ri, rows, loaderVars, cliVars, fileVars>>

----------------------------------------------------------------------------
(* Specification *)

NoPayload == [descriptive_data |-> EmptyDict, measurement_data |-> <<>>]

\* the form before the user has typed anything
EmptyForm == [project |-> <<>>, template |-> <<>>, mdate |-> <<>>]

\* the loader is not running and its database is empty
LoaderIdle ==
    /\ lpc = "idle"
    /\ data = NoPayload
    /\ guid_final = <<>>
    /\ cleaned_measurements = <<>>
    /\ li = 1
    /\ db_descriptive = {}
    /\ db_measurement = {}

\* the command-line converter is not running
CliIdle ==
    /\ cpc = "idle"
    /\ cread = 0
    /\ keys_array = <<>>
    /\ values = <<>>
    /\ bdf = FALSE
    /\ keys_local = <<>>
    /\ data_local = <<>>
    /\ is_parsing_keys = FALSE
    /\ is_parsing_data = FALSE

\* no output file is being chosen or written
FilesIdle ==
    /\ fpc = "idle"
    /\ filename_var = <<>>
    /\ output_filename = <<>>
    /\ replace_all_var = FALSE
    /\ exists = {}
    /\ overwrite = "unasked"
    /\ target_path = <<>>

Init ==
    /\ pc = "scan"
    /\ nread = 0
    /\ line = <<>>
    /\ in_df = FALSE
    /\ in_data = FALSE
    /\ descriptive = EmptyDict
    /\ keys = <<>>
    /\ buffer_after_begin_data = <<>>
    /\ ri = 1
    /\ rows = <<>>
    /\ measurement_uuid = <<>>
    /\ payload = NoPayload
    /\ form = EmptyForm
    /\ LoaderIdle
    /\ CliIdle
    /\ FilesIdle

Next ==
    \/ \E raw \in LinePool : ScanLine(raw)
    \/ EndOfInput
    \/ InferKeys
    \/ ParseRowsStep
    \/ ParseRowsReturn
    \/ Process

Spec == Init /\ [][Next]_vars

----------------------------------------------------------------------------
(* parse_descriptive_and_formats alone, on longer inputs of header, format
   and data lines *)

ScanPool ==
    {BlankLine, HashComment, KvLine, BeginFormatLine, EndFormatLine,
     BeginDataLine, EndDataLine, TwoTokens, TwoSameTokens}

\* the loop on the longer inputs
ScanLongInput(raw) == ScanStep(raw, MaxScanLines)

ScanNext == \E raw \in ScanPool : ScanLongInput(raw)

ScanSpec == Init /\ [][ScanNext]_vars

----------------------------------------------------------------------------
(* The enrichment of App.process on the descriptive maps a parse can return *)

\* descriptive maps of a parse whose header held some of the lines
\* PROJECT, TEMPLATE, PARSED_DATE and MEASUREMENT_ID, each with the value x
\* or with no value
DescPool ==
    UNION {[K -> {<<>>, <<"x">>}] :
              K \in SUBSET {PROJECT, TEMPLATE, PARSED_DATE, MEASUREMENT_ID}}

\* parse_cgats_text has returned a ParseResult with one of these maps and
\* no rows
EnrichInit ==
    /\ pc = "parsed"
    /\ nread = 0
    /\ line = <<>>
    /\ in_df = FALSE
    /\ in_data = FALSE
    /\ descriptive \in DescPool
    /\ keys = <<>>
    /\ buffer_after_begin_data = <<>>
    /\ ri = 1
    /\ rows = <<>>
    /\ measurement_uuid = <<>>
    /\ payload = NoPayload
    /\ form = EmptyForm
    /\ LoaderIdle
    /\ CliIdle
    /\ FilesIdle

\* lines 493-503 once more, on the descriptive map the previous run enriched
EnrichAgain ==
    /\ pc = "done"
    /\ \E uuid \in UUIDs, f \in FormInputs :
          LET desc == EnrichDescriptive(descriptive, uuid, f.project,
                                        f.template, MeasurementDate(f.mdate))
          IN  /\ measurement_uuid' = uuid
              /\ form' = f
              /\ descriptive' = desc
              /\ payload' = to_json(desc, rows, uuid)
    /\ UNCHANGED <<pc, nread, line, in_df, in_data, keys, buffer_after_begin_data,
                   ri, rows, loaderVars, cliVars, fileVars>>

EnrichNext ==
    \/ Process
    \/ EnrichAgain

EnrichSpec == EnrichInit /\ [][EnrichNext]_vars

----------------------------------------------------------------------------
(* The loader (loadJson.py): process_file on one JSON payload *)

\* rows of one payload
MaxRows == 2

SAMPLE_ID == <<"S", "A", "M", "P", "L", "E", "_", "I", "D">>

measurement_id == <<"m", "e", "a", "s", "u", "r", "e", "m", "e", "n", "t", "_", "i", "d">>

\* value of a sequence of decimal digits
RECURSIVE DigitsValue(_)
DigitsValue(s) ==
    IF s = <<>> THEN 0
    ELSE 10 * DigitsValue(SubSeq(s, 1, Len(s) - 1))
         + ((CHOOSE i \in 1..10 : Digits[i] = s[Len(s)]) - 1)

\* int(v) for a string v: surrounding whitespace, an optional sign, decimal
\* digits with single underscores between them; anything else raises
\* ValueError
IntOf(v) ==
    LET t      == Strip(v)
        signed == t # <<>> /\ t[1] \in {"+", "-"}
        b      == IF signed THEN Tail(t) ELSE t
        wellformed ==
            /\ b # <<>>
            /\ \A i \in 1..Len(b) : b[i] \in SeqRange(Digits) \cup {"_"}
            /\ b[1] # "_" /\ b[Len(b)] # "_"
            /\ \A i \in 1..(Len(b) - 1) : ~(b[i] = "_" /\ b[i + 1] = "_")
        n      == DigitsValue(SelectSeq(b, LAMBDA c : c # "_"))
    IN  IF wellformed
        THEN [raised |-> FALSE, n |-> IF signed /\ t[1] = "-" THEN 0 - n ELSE n]
        ELSE [raised |-> TRUE, n |-> 0]

\* uuid.UUID(s) accepts s.  An identifier is written u followed by one
\* digit here; every other text is not a UUID.
IsUUID(s) == Len(s) = 2 /\ s[1] = "u" /\ s[2] \in SeqRange(Digits)

\* the guid main() passes to process_file
CliGuid == <<"u", "0">>

\* the candidates of _extract_measurement_id_from_json: the non-empty
\* values under MEASUREMENT_ID or measurement_id in desc and in the rows,
\* stripped
Candidates(desc, measurements) ==
    LET Of(d) == {Strip(d[k]) : k \in {x \in {MEASUREMENT_ID, measurement_id} :
                                          x \in DOMAIN d /\ d[x] # <<>>}}
    IN  Of(desc) \cup UNION {Of(measurements[i]) : i \in 1..Len(measurements)}

\* variant of _extract_measurement_id_from_json that takes one of several
\* different identifiers instead of raising
extract_measurement_id_any(desc, measurements) ==
    LET c == Candidates(desc, measurements) IN
    IF c = {} THEN [raised |-> FALSE, found |-> FALSE, id |-> <<>>]
    ELSE LET only == CHOOSE x \in c : TRUE IN
         IF IsUUID(only) THEN [raised |-> FALSE, found |-> TRUE, id |-> only]
         ELSE [raised |-> TRUE, found |-> FALSE, id |-> <<>>]

\* _extract_measurement_id_from_json: None, the one identifier found, or
\* ValueError on conflicting or invalid values
extract_measurement_id_from_json(desc, measurements) ==
    LET c == Candidates(desc, measurements) IN
    IF c = {} THEN [raised |-> FALSE, found |-> FALSE, id |-> <<>>]
    ELSE IF Cardinality(c) > 1 THEN [raised |-> TRUE, found |-> FALSE, id |-> <<>>]
    ELSE LET only == CHOOSE x \in c : TRUE IN
         IF IsUUID(only) THEN [raised |-> FALSE, found |-> TRUE, id |-> only]
         ELSE [raised |-> TRUE, found |-> FALSE, id |-> <<>>]

\* row["MEASUREMENT_ID"] = guid_final for every row
ForceGuid(measurements, g) ==
    [i \in 1..Len(measurements) |-> DictSet(measurements[i], MEASUREMENT_ID, g)]

\* pairs = [(r["MEASUREMENT_ID"], r["SAMPLE_ID"]) for r in cleaned_measurements]
RawPairs(cleaned) ==
    [i \in 1..Len(cleaned) |-> <<cleaned[i][MEASUREMENT_ID], cleaned[i][SAMPLE_ID]>>]

\* dupes = [k for k, v in Counter(pairs).items() if v > 1] is not empty
HasDupes(pairs) ==
    \E i, j \in 1..Len(pairs) : i # j /\ pairs[i] = pairs[j]

\* the measurement_id of build_descriptive_kwargs: the value the JSON holds
\* under MEASUREMENT_ID (or measurement_id) unless it is empty, else guid
DescriptiveId(desc, g) ==
    IF MEASUREMENT_ID \in DOMAIN desc /\ desc[MEASUREMENT_ID] # <<>>
    THEN desc[MEASUREMENT_ID]
    ELSE IF measurement_id \in DOMAIN desc /\ desc[measurement_id] # <<>>
    THEN desc[measurement_id]
    ELSE g

\* what a commit can do: succeed, or raise an SQLAlchemyError
DbOutcomes == {"ok", "error"}

\* lines 275-300: the identifier of the load, the validation of the rows
\* and the duplicate guard; nothing is written to the database
Validate ==
    /\ lpc = "load"
    /\ LET desc         == data.descriptive_data
           measurements == data.measurement_data
           json_guid    == extract_measurement_id_from_json(desc, measurements)
           g            == IF json_guid.found THEN json_guid.id ELSE CliGuid
           cleaned      == ForceGuid(measurements, g)
       IN  IF json_guid.raised
           THEN /\ lpc' = "raised"
                /\ UNCHANGED <<guid_final, cleaned_measurements>>
           ELSE IF \E i \in 1..Len(measurements) : SAMPLE_ID \notin DOMAIN measurements[i]
           THEN /\ lpc' = "raised"
                /\ guid_final' = g
                /\ UNCHANGED cleaned_measurements
           ELSE IF HasDupes(RawPairs(cleaned))
           THEN /\ lpc' = "raised"
                /\ guid_final' = g
                /\ cleaned_measurements' = cleaned
           ELSE /\ lpc' = "insert_desc"
                /\ guid_final' = g
                /\ cleaned_measurements' = cleaned
    /\ UNCHANGED <<data, li, db_descriptive, db_measurement>>
    /\ UNCHANGED <<pc, nread, line, in_df, in_data, descriptive, keys,
                   buffer_after_begin_data, ri, rows, measurement_uuid, payload,
                   form, cliVars, fileVars>>

\* lines 335-343: add and commit the descriptive record; on an
\* SQLAlchemyError (a failing commit, or a record with that primary key)
\* roll back and raise
InsertDescriptive ==
    /\ lpc = "insert_desc"
    /\ \E outcome \in DbOutcomes :
          LET id == DescriptiveId(data.descriptive_data, guid_final) IN
          IF outcome = "error" \/ id \in db_descriptive
          THEN /\ lpc' = "raised"
               /\ UNCHANGED <<li, db_descriptive>>
          ELSE /\ db_descriptive' = db_descriptive \cup {id}
               /\ li' = 1
               /\ lpc' = "insert_rows"
    /\ UNCHANGED <<data, guid_final, cleaned_measurements, db_measurement>>
    /\ UNCHANGED <<pc, nread, line, in_df, in_data, descriptive, keys,
                   buffer_after_begin_data, ri, rows, measurement_uuid, payload,
                   form, cliVars, fileVars>>

\* lines 345-373, one iteration: int(row["SAMPLE_ID"]) may raise
\* ValueError; add and commit the row; on an SQLAlchemyError (a failing
\* commit, or a row with that primary key) roll back and raise
InsertRow ==
    /\ lpc = "insert_rows"
    /\ li <= Len(cleaned_measurements)
    /\ \E outcome \in DbOutcomes :
          LET sample_id == IntOf(cleaned_measurements[li][SAMPLE_ID])
              key       == <<guid_final, sample_id.n>>
          IN  IF sample_id.raised \/ outcome = "error" \/ key \in db_measurement
              THEN /\ lpc' = "raised"
                   /\ UNCHANGED <<li, db_measurement>>
              ELSE /\ db_measurement' = db_measurement \cup {key}
                   /\ li' = li + 1
                   /\ UNCHANGED lpc
    /\ UNCHANGED <<data, guid_final, cleaned_measurements, db_descriptive>>
    /\ UNCHANGED <<pc, nread, line, in_df, in_data, descriptive, keys,
                   buffer_after_begin_data, ri, rows, measurement_uuid, payload,
                   form, cliVars, fileVars>>

\* line 375: every row is committed, the session is closed
CloseSession ==
    /\ lpc = "insert_rows"
    /\ li > Len(cleaned_measurements)
    /\ lpc' = "closed"
    /\ UNCHANGED <<data, guid_final, cleaned_measurements, li, db_descriptive,
                   db_measurement>>
    /\ UNCHANGED <<pc, nread, line, in_df, in_data, descriptive, keys,
                   buffer_after_begin_data, ri, rows, measurement_uuid, payload,
                   form, cliVars, fileVars>>

\* the rows of the payloads: a MEASUREMENT_ID as the converter stamps it
\* and a SAMPLE_ID cell, or one of the two missing
RowWith(id, sample) ==
    [k \in {MEASUREMENT_ID, SAMPLE_ID} |-> IF k = MEASUREMENT_ID THEN id ELSE sample]

RowPool ==
    {RowWith(<<"u", "1">>, <<"1">>),
     RowWith(<<"u", "1">>, <<"0", "1">>),
     RowWith(<<"u", "1">>, <<"2">>),
     RowWith(<<"u", "1">>, <<"x">>),
     RowWith(<<"u", "2">>, <<"2">>),
     [k \in {MEASUREMENT_ID} |-> <<"u", "1">>],
     [k \in {SAMPLE_ID} |-> <<"1">>]}

\* descriptive_data of the payloads: no MEASUREMENT_ID, the identifier the
\* rows hold, or a value of the input file that is no UUID
LoaderDescPool ==
    {EmptyDict,
     [k \in {MEASUREMENT_ID} |-> <<"u", "1">>],
     [k \in {MEASUREMENT_ID} |-> <<"m">>]}

RowSeqs == UNION {[1..n -> RowPool] : n \in 0..MaxRows}

\* json.load(f) of the file process_file is given
JsonPayloads ==
    {[descriptive_data |-> d, measurement_data |-> m] :
        d \in LoaderDescPool, m \in RowSeqs}

\* process_file has read the JSON file; the database is empty
LoaderInit ==
    /\ pc = "scan"
    /\ nread = 0
    /\ line = <<>>
    /\ in_df = FALSE
    /\ in_data = FALSE
    /\ descriptive = EmptyDict
    /\ keys = <<>>
    /\ buffer_after_begin_data = <<>>
    /\ ri = 1
    /\ rows = <<>>
    /\ measurement_uuid = <<>>
    /\ payload = NoPayload
    /\ form = EmptyForm
    /\ lpc = "load"
    /\ data \in JsonPayloads
    /\ guid_final = <<>>
    /\ cleaned_measurements = <<>>
    /\ li = 1
    /\ db_descriptive = {}
    /\ db_measurement = {}
    /\ CliIdle
    /\ FilesIdle

LoaderNext ==
    \/ Validate
    \/ InsertDescriptive
    \/ InsertRow
    \/ CloseSession

LoaderSpec == LoaderInit /\ [][LoaderNext]_vars

----------------------------------------------------------------------------
(* The command-line converter (cgatsToJson.py) *)

\* number of lines of the files the command-line converter reads
MaxCliLines == 5

\* number of cells convert_values is given
MaxCells == 2

\* str.strip(chars): the characters of the set cs removed from both ends
RECURSIVE LStripChars(_, _)
LStripChars(s, cs) ==
    IF s = <<>> \/ Head(s) \notin cs THEN s ELSE LStripChars(Tail(s), cs)

RECURSIVE RStripChars(_, _)
RStripChars(s, cs) ==
    IF s = <<>> \/ s[Len(s)] \notin cs THEN s
    ELSE RStripChars(SubSeq(s, 1, Len(s) - 1), cs)

StripChars(s, cs) == RStripChars(LStripChars(s, cs), cs)

\* str.find(c) + 1: the position of the first c in s, 0 if there is none
Find(s, c) ==
    IF c \in SeqRange(s) THEN CHOOSE i \in 1..Len(s) :
                                 s[i] = c /\ \A j \in 1..(i - 1) : s[j] # c
    ELSE 0

\* lines 117-119 and 133-135: input_string.strip(' /t') and the split at
\* the first tab, or at the first space if there is no tab; raised stands
\* for the ValueError of unpacking a one-element split
SplitFirstWord(input_string) ==
    LET s          == StripChars(input_string, {" ", "/", "t"})
        split_char == IF "\t" \in SeqRange(s) THEN "\t" ELSE " "
        i          == Find(s, split_char)
    IN  IF i = 0
        THEN [raised |-> TRUE, first |-> <<>>, rest |-> <<>>]
        ELSE [raised |-> FALSE, first |-> SubSeq(s, 1, i - 1),
              rest |-> SubSeq(s, i + 1, Len(s))]

\* remove_first_word: none stands for the None returned on a ValueError
remove_first_word(input_string) ==
    LET sp == SplitFirstWord(input_string) IN
    IF sp.raised THEN [none |-> TRUE, s |-> <<>>]
    ELSE [none |-> FALSE, s |-> StripChars(sp.rest, {" ", "\t", "\""})]

\* get_first_word
get_first_word(input_string) ==
    LET sp    == SplitFirstWord(input_string)
        first == Strip(sp.first)
    IN  IF sp.raised THEN [none |-> TRUE, s |-> <<>>]
        ELSE [none |-> FALSE,
              s |-> IF first # <<>> /\ first[Len(first)] = ":"
                    THEN SubSeq(first, 1, Len(first) - 1) ELSE first]

\* replace_tabs_with_spaces
replace_tabs_with_spaces(input_string) ==
    [i \in 1..Len(input_string) |->
        IF input_string[i] = "\t" THEN " " ELSE input_string[i]]

\* a cell of a record: a Python str, int or float.  A float is the decimal
\* n / d with d the smallest power of ten that makes n an integer
StrCell(s) == [kind |-> "str", s |-> s, n |-> 0, d |-> 1]

IntCell(n) == [kind |-> "int", s |-> <<>>, n |-> n, d |-> 1]

RECURSIVE FloatCell(_, _)
FloatCell(n, d) ==
    IF d > 1 /\ n % 10 = 0 THEN FloatCell(n \div 10, d \div 10)
    ELSE [kind |-> "float", s |-> <<>>, n |-> n, d |-> d]

\* length of the leading run of decimal digits (\d*) of s
RECURSIVE DigitRunLen(_)
DigitRunLen(s) ==
    IF s = <<>> \/ Head(s) \notin SeqRange(Digits) THEN 0
    ELSE 1 + DigitRunLen(Tail(s))

\* [+-]? of both patterns: the text after an optional sign
Unsigned(s) == IF s # <<>> /\ s[1] \in {"+", "-"} THEN Tail(s) ELSE s

\* variant of float_pattern without the alternatives of a bare leading or
\* trailing point: ^[+-]?\d+\.\d+$
float_pattern_both_sides(s) ==
    LET b == Unsigned(s)
        i == DigitRunLen(b)
        f == SubSeq(b, i + 2, Len(b))
    IN  /\ i < Len(b)
        /\ b[i + 1] = "."
        /\ DigitRunLen(f) = Len(f)
        /\ i > 0
        /\ Len(f) > 0

\* float_pattern ^[+-]?(?:\d+\.\d*|\.\d+|\d+\.)$
float_pattern(s) ==
    LET b == Unsigned(s)
        i == DigitRunLen(b)
        f == SubSeq(b, i + 2, Len(b))
    IN  /\ i < Len(b)
        /\ b[i + 1] = "."
        /\ DigitRunLen(f) = Len(f)
        /\ i + Len(f) > 0

\* int_pattern ^[+-]?\d+$
int_pattern(s) ==
    LET b == Unsigned(s) IN b # <<>> /\ DigitRunLen(b) = Len(b)

RECURSIVE Pow10(_)
Pow10(k) == IF k = 0 THEN 1 ELSE 10 * Pow10(k - 1)

\* float(value) of a text float_pattern matches
FloatOf(s) ==
    LET b    == Unsigned(s)
        i    == DigitRunLen(b)
        f    == SubSeq(b, i + 2, Len(b))
        n    == DigitsValue(SubSeq(b, 1, i)) * Pow10(Len(f)) + DigitsValue(f)
    IN  FloatCell(IF s[1] = "-" THEN 0 - n ELSE n, Pow10(Len(f)))

\* int(value) of a text int_pattern matches
IntValueOf(s) ==
    LET n == DigitsValue(Unsigned(s)) IN
    IntCell(IF s[1] = "-" THEN 0 - n ELSE n)

\* smart_convert, lines 152-162, of a str
smart_convert(value) ==
    LET v == Strip(value) IN
    IF float_pattern(v) THEN FloatOf(v)
    ELSE IF int_pattern(v) THEN IntValueOf(v)
    ELSE StrCell(v)

\* convert_values: dict(zip(key_array, (smart_convert(v) for v in values)))
convert_values(key_array, vals) ==
    ZipRow(key_array, [i \in 1..Len(vals) |-> smart_convert(vals[i])])

BEGIN == <<"B", "E", "G", "I", "N">>

DATA_FORMAT == <<"D", "A", "T", "A", "_", "F", "O", "R", "M", "A", "T">>

\* the name line 290 looks for
Measurement_Date == <<"M", "e", "a", "s", "u", "r", "e", "m", "e", "n", "t",
                      "_", "D", "a", "t", "e">>

\* lines 198-273: the prefixes line.startswith is given, in the order of
\* the elif chain, and the key of each
PrefixTable ==
    <<
     [prefixes |-> {
                     <<"C", "R", "E", "A", "T", "O", "R">>,
                     <<"O", "R", "I", "G", "I", "N", "A", "T", "O", "R">>},
      key |-> <<"O", "R", "I", "G", "I", "N", "A", "T", "O", "R">>],
     [prefixes |-> {
                     <<"C", "R", "E", "A", "T", "I", "O", "N", "_", "D", "A",
                       "T", "E">>,
                     <<"C", "R", "E", "A", "T", "E", "D">>},
      key |-> <<"C", "R", "E", "A", "T", "I", "O", "N", "_", "D", "A", "T",
                "E">>],
     [prefixes |-> {
                     <<"T", "A", "R", "G", "E", "T">>},
      key |-> <<"T", "A", "R", "G", "E", "T", "_", "I", "D">>],
     [prefixes |-> {
                     <<"M", "A", "N", "U", "F", "A", "C", "T", "U", "R", "E",
                       "R">>,
                     <<"M", "E", "D", "I", "A", "_", "M", "A", "N", "U", "F",
                       "A", "C", "T", "U", "R", "E", "R">>},
      key |-> <<"M", "E", "D", "I", "A", "_", "M", "A", "N", "U", "F", "A",
                "C", "T", "U", "R", "E", "R">>],
     [prefixes |-> {
                     <<"M", "A", "T", "E", "R", "I", "A", "L">>,
                     <<"M", "E", "D", "I", "A", "_", "M", "A", "T", "E", "R",
                       "I", "A", "L">>},
      key |-> <<"M", "E", "D", "I", "A", "_", "M", "A", "T", "E", "R", "I",
                "A", "L">>],
     [prefixes |-> {
                     <<"P", "R", "O", "D", "_", "D", "A", "T", "E">>,
                     <<"C", "R", "E", "A", "T", "E", "D">>,
                     <<"M", "E", "D", "I", "A", "_", "P", "R", "O", "D", "_",
                       "D", "A", "T", "E">>},
      key |-> <<"M", "E", "D", "I", "A", "_", "P", "R", "O", "D", "_", "D",
                "A", "T", "E">>],
     [prefixes |-> {
                     <<"S", "E", "R", "I", "A", "L">>,
                     <<"D", "E", "V", "I", "C", "E", "_", "S", "E", "R", "I",
                       "A", "L", "_", "N", "U", "M", "B", "E", "R">>},
      key |-> <<"D", "E", "V", "I", "C", "E", "_", "S", "E", "R", "I", "A",
                "L", "_", "N", "U", "M", "B", "E", "R">>],
     [prefixes |-> {
                     <<"I", "N", "S", "T", "R", "U", "M", "E", "N", "T", "A",
                       "T", "I", "O", "N">>,
                     <<"I", "N", "S", "T", "R", "U", "M", "E", "N", "T">>,
                     <<"D", "E", "V", "I", "C", "E">>},
      key |-> <<"D", "E", "V", "I", "C", "E", "_", "M", "O", "D", "E", "L">>],
     [prefixes |-> {
                     <<"S", "O", "F", "T", "W", "A", "R", "E">>},
      key |-> <<"S", "O", "F", "T", "W", "A", "R", "E">>],
     [prefixes |-> {
                     <<"C", "O", "M", "M", "E", "N", "T">>},
      key |-> <<"C", "O", "M", "M", "E", "N", "T">>],
     [prefixes |-> {
                     <<"J", "O", "B", "_", "N", "A", "M", "E">>,
                     <<"J", "O", "B", "_", "I", "D">>,
                     <<"M", "E", "A", "S", "U", "R", "E", "M", "E", "N", "T",
                       "_", "N", "A", "M", "E">>},
      key |-> <<"M", "E", "A", "S", "U", "R", "E", "M", "E", "N", "T", "_",
                "N", "A", "M", "E">>],
     [prefixes |-> {
                     <<"D", "E", "S", "C", "R", "I", "P", "T", "I", "O", "N">>,
                     <<"D", "E", "S", "C", "R", "I", "P", "T", "O", "R">>},
      key |-> <<"D", "E", "S", "C", "R", "I", "P", "T", "I", "O", "N">>],
     [prefixes |-> {
                     <<"H", "E", "A", "T", "_", "P", "R", "E", "S", "S", "_",
                       "N", "A", "M", "E">>},
      key |-> <<"H", "E", "A", "T", "_", "P", "R", "E", "S", "S", "_", "N",
                "A", "M", "E">>],
     [prefixes |-> {
                     <<"H", "E", "A", "T", "_", "P", "R", "E", "S", "S", "_",
                       "T", "E", "M", "P">>},
      key |-> <<"H", "E", "A", "T", "_", "P", "R", "E", "S", "S", "_", "T",
                "E", "M", "P">>],
     [prefixes |-> {
                     <<"H", "E", "A", "T", "_", "P", "R", "E", "S", "S", "_",
                       "T", "I", "M", "E">>},
      key |-> <<"H", "E", "A", "T", "_", "P", "R", "E", "S", "S", "_", "T",
                "I", "M", "E">>],
     [prefixes |-> {
                     <<"P", "R", "I", "N", "T", "E", "R", "_", "N", "A", "M",
                       "E">>},
      key |-> <<"P", "R", "I", "N", "T", "E", "R", "_", "N", "A", "M", "E">>],
     [prefixes |-> {
                     <<"I", "N", "K", "_", "M", "A", "N", "U", "F", "A", "C",
                       "T", "U", "R", "E", "R">>},
      key |-> <<"I", "N", "K", "_", "M", "A", "N", "U", "F", "A", "C", "T",
                "U", "R", "E", "R">>],
     [prefixes |-> {
                     <<"I", "N", "K", "_", "S", "E", "T">>},
      key |-> <<"I", "N", "K", "_", "S", "E", "T">>],
     [prefixes |-> {
                     <<"I", "N", "K", "_", "T", "Y", "P", "E">>},
      key |-> <<"I", "N", "K", "_", "T", "Y", "P", "E">>],
     [prefixes |-> {
                     <<"S", "A", "M", "P", "L", "E", "_", "B", "A", "C", "K",
                       "I", "N", "G">>},
      key |-> <<"S", "A", "M", "P", "L", "E", "_", "B", "A", "C", "K", "I",
                "N", "G">>],
     [prefixes |-> {
                     <<"I", "L", "L", "U", "M", "I", "N", "A", "N", "T">>,
                     <<"I", "L", "L", "U", "M", "I", "N", "A", "T", "I", "O",
                       "N", "_", "N", "A", "M", "E">>,
                     <<"M", "E", "A", "S", "U", "R", "E", "M", "E", "N", "T",
                       "_", "I", "L", "L", "U", "M", "I", "N", "A", "T", "I",
                       "O", "N">>},
      key |-> <<"M", "E", "A", "S", "U", "R", "E", "M", "E", "N", "T", "_",
                "I", "L", "L", "U", "M", "I", "N", "A", "T", "I", "O", "N">>],
     [prefixes |-> {
                     <<"O", "B", "S", "E", "R", "V", "E", "R">>,
                     <<"O", "B", "S", "E", "R", "V", "E", "R", "_", "A", "N",
                       "G", "L", "E">>,
                     <<"M", "E", "A", "S", "U", "R", "E", "M", "E", "N", "T",
                       "_", "A", "N", "G", "L", "E">>},
      key |-> <<"M", "E", "A", "S", "U", "R", "E", "M", "E", "N", "T", "_",
                "A", "N", "G", "L", "E">>],
     [prefixes |-> {
                     <<"N", "U", "M", "B", "E", "R", "_", "O", "F", "_", "F",
                       "I", "E", "L", "D", "S">>},
      key |-> <<"N", "U", "M", "B", "E", "R", "_", "O", "F", "_", "F", "I",
                "E", "L", "D", "S">>],
     [prefixes |-> {
                     <<"N", "U", "M", "B", "E", "R", "_", "O", "F", "_", "S",
                       "E", "T", "S">>},
      key |-> <<"N", "U", "M", "B", "E", "R", "_", "O", "F", "_", "S", "E",
                "T", "S">>],
     [prefixes |-> {
                     <<"L", "G", "O", "R", "O", "W", "L", "E", "N", "G", "T",
                       "H">>,
                     <<"R", "O", "W", "_", "L", "E", "N", "G", "T", "H">>},
      key |-> <<"R", "O", "W", "_", "L", "E", "N", "G", "T", "H">>]
    >>

\* the index of the first entry of the chain the line matches, 0 if none
PrefixMatch(l) ==
    LET hit(i) == \E p \in PrefixTable[i].prefixes : StartsWith(l, p) IN
    IF \E i \in 1..Len(PrefixTable) : hit(i)
    THEN CHOOSE i \in 1..Len(PrefixTable) :
            hit(i) /\ \A j \in 1..(i - 1) : ~hit(j)
    ELSE 0

\* lines 198-277: the key of a header line
KeyOfLine(l) ==
    LET i == PrefixMatch(l) IN
    IF i > 0 THEN PrefixTable[i].key
    ELSE <<"#", " ">> \o get_first_word(l).s

\* variant of StoreHeader that stores a line whatever its key is
StoreHeaderAnyKey(ka, vs, l) ==
    [keys_array |-> Append(ka, KeyOfLine(l)),
     values |-> Append(vs, replace_tabs_with_spaces(remove_first_word(l).s))]

\* lines 280-288: the key and the value of a header line are appended
\* unless the key starts with '#'
StoreHeader(ka, vs, l) ==
    LET key == KeyOfLine(l) IN
    IF StartsWith(key, <<"#">>)
    THEN [keys_array |-> ka, values |-> vs]
    ELSE [keys_array |-> Append(ka, key),
          values |-> Append(vs, replace_tabs_with_spaces(remove_first_word(l).s))]

\* lines 290-293
AppendMeasurementDate(ka, vs) ==
    IF Measurement_Date \notin SeqRange(ka)
    THEN [keys_array |-> Append(ka, MEASUREMENT_DATE), values |-> Append(vs, Today)]
    ELSE [keys_array |-> ka, values |-> vs]

\* lines 176-293, one iteration of the loop on a line of the file; the
\* iteration that breaks runs on to line 293
DescribeLine(raw) ==
    /\ cpc = "describe"
    /\ cread < MaxCliLines
    /\ cread' = cread + 1
    /\ LET l == Upper(Strip(raw)) IN
       IF StartsWith(l, BEGIN_DATA_FORMAT)
       THEN /\ bdf' = TRUE
            /\ UNCHANGED <<cpc, keys_array, values>>
       ELSE IF StartsWith(l, BEGIN)
       THEN LET r == AppendMeasurementDate(keys_array, values) IN
            /\ keys_array' = r.keys_array
            /\ values' = r.values
            /\ cpc' = "described"
            /\ UNCHANGED bdf
       ELSE IF bdf
       THEN /\ keys_array' = Append(keys_array, DATA_FORMAT)
            /\ values' = Append(values, replace_tabs_with_spaces(l))
            /\ bdf' = FALSE
            /\ UNCHANGED cpc
       ELSE IF remove_first_word(l).none
       THEN UNCHANGED <<cpc, keys_array, values, bdf>>
       ELSE LET r == StoreHeader(keys_array, values, l) IN
            /\ keys_array' = r.keys_array
            /\ values' = r.values
            /\ UNCHANGED <<cpc, bdf>>
    /\ UNCHANGED <<keys_local, data_local, is_parsing_keys, is_parsing_data>>
    /\ line' = LET l == Upper(Strip(raw)) IN
               IF bdf /\ ~StartsWith(l, BEGIN) THEN replace_tabs_with_spaces(l)
               ELSE l
    /\ UNCHANGED <<pc, nread, in_df, in_data, descriptive, keys,
                   buffer_after_begin_data, ri, rows, measurement_uuid, payload,
                   form, loaderVars, fileVars>>

\* the file ends: lines 290-293
DescribeEndOfFile ==
    /\ cpc = "describe"
    /\ LET r == AppendMeasurementDate(keys_array, values) IN
       /\ keys_array' = r.keys_array
       /\ values' = r.values
    /\ cpc' = "described"
    /\ UNCHANGED <<cread, bdf, keys_local, data_local, is_parsing_keys,
                   is_parsing_data>>
    /\ UNCHANGED <<pc, nread, line, in_df, in_data, descriptive, keys,
                   buffer_after_begin_data, ri, rows, measurement_uuid, payload,
                   form, loaderVars, fileVars>>

\* line 300: the map parse_descriptive_lines returns
DescriptiveResult == ZipRow(keys_array, values)

\* lines 313-333, one iteration of the loop on a line of the file
ExtractLine(raw) ==
    /\ cpc = "extract"
    /\ cread < MaxCliLines
    /\ cread' = cread + 1
    /\ LET l == Strip(raw) IN
       IF l = BEGIN_DATA_FORMAT
       THEN /\ is_parsing_keys' = TRUE
            /\ UNCHANGED <<keys_local, data_local, is_parsing_data>>
       ELSE IF l = END_DATA_FORMAT
       THEN /\ is_parsing_keys' = FALSE
            /\ UNCHANGED <<keys_local, data_local, is_parsing_data>>
       ELSE IF l = BEGIN_DATA
       THEN /\ is_parsing_data' = TRUE
            /\ UNCHANGED <<keys_local, data_local, is_parsing_keys>>
       ELSE IF l = END_DATA
       THEN /\ is_parsing_data' = FALSE
            /\ UNCHANGED <<keys_local, data_local, is_parsing_keys>>
       ELSE IF is_parsing_keys
       THEN /\ keys_local' = Split(MEASUREMENT_ID \o <<":", " ">> \o l)
            /\ UNCHANGED <<data_local, is_parsing_keys, is_parsing_data>>
       ELSE IF is_parsing_data
       THEN /\ data_local' =
                  Append(data_local,
                         convert_values(keys_local,
                                        Split(measurement_uuid \o <<" ">> \o l)))
            /\ UNCHANGED <<keys_local, is_parsing_keys, is_parsing_data>>
       ELSE UNCHANGED <<keys_local, data_local, is_parsing_keys, is_parsing_data>>
    /\ UNCHANGED <<cpc, keys_array, values, bdf>>
    /\ line' = LET l == Strip(raw) IN
               IF l \in {BEGIN_DATA_FORMAT, END_DATA_FORMAT, BEGIN_DATA, END_DATA}
               THEN l
               ELSE IF is_parsing_keys THEN MEASUREMENT_ID \o <<":", " ">> \o l
               ELSE IF is_parsing_data THEN measurement_uuid \o <<" ">> \o l
               ELSE l
    /\ UNCHANGED <<pc, nread, in_df, in_data, descriptive, keys,
                   buffer_after_begin_data, ri, rows, measurement_uuid, payload,
                   form, loaderVars, fileVars>>

\* line 335: the file ends and keys_local, data_local are returned
ExtractReturn ==
    /\ cpc = "extract"
    /\ cpc' = "extracted"
    /\ UNCHANGED <<cread, keys_array, values, bdf, keys_local, data_local,
                   is_parsing_keys, is_parsing_data>>
    /\ UNCHANGED <<pc, nread, line, in_df, in_data, descriptive, keys,
                   buffer_after_begin_data, ri, rows, measurement_uuid, payload,
                   form, loaderVars, fileVars>>

\* the converter of the graphical application is not running
ConverterIdle ==
    /\ pc = "idle"
    /\ nread = 0
    /\ line = <<>>
    /\ in_df = FALSE
    /\ in_data = FALSE
    /\ descriptive = EmptyDict
    /\ keys = <<>>
    /\ buffer_after_begin_data = <<>>
    /\ ri = 1
    /\ rows = <<>>
    /\ payload = NoPayload
    /\ form = EmptyForm

\* a header line whose first word matches no prefix
UnknownLine == <<"f", "o", "o", ":", " ", "b", "a", "r">>

\* the lines of the files parse_descriptive_lines is run on: recognized
\* header lines (space and tab separated), unrecognized ones, a line of one
\* word, the format marker, a format line and the data marker
DescribePool ==
    {<<"c", "r", "e", "a", "t", "o", "r", " ", " ", "\"", "x", "\"">>,
     <<"C", "r", "e", "a", "t", "e", "d", ":", " ", "1">>,
     <<"t", "a", "r", "g", "e", "t", "\t", "t", " ", "1">>,
     UnknownLine,
     <<"#", " ", "f", "o", "o", " ", "b", "a", "r">>,
     <<"S", "O", "F", "T", "W", "A", "R", "E">>,
     <<"M", "E", "A", "S", "U", "R", "E", "M", "E", "N", "T", "_", "I", "D", " ", "m">>,
     <<"M", "e", "a", "s", "u", "r", "e", "m", "e", "n", "t", "_", "D", "a", "t", "e", " ", "d">>,
     BeginFormatLine,
     <<"i", "d", "\t", "l", "a", "b", "_", "l">>,
     BeginDataLine}

\* main, lines 374-378: parse_descriptive_lines is called with a fresh
\* identifier
DescribeInit ==
    /\ ConverterIdle
    /\ measurement_uuid \in UUIDs
    /\ LoaderIdle
    /\ FilesIdle
    /\ cpc = "describe"
    /\ cread = 0
    /\ keys_array = <<MEASUREMENT_ID>>
    /\ values = <<measurement_uuid>>
    /\ bdf = FALSE
    /\ keys_local = <<>>
    /\ data_local = <<>>
    /\ is_parsing_keys = FALSE
    /\ is_parsing_data = FALSE

DescribeNext ==
    \/ \E raw \in DescribePool : DescribeLine(raw)
    \/ DescribeEndOfFile

DescribeSpec == DescribeInit /\ [][DescribeNext]_vars

\* the lines of the files extract_keys_and_data is run on: the four
\* markers, a format line and two data lines
ExtractPool ==
    {BEGIN_DATA_FORMAT,
     <<" ", "E", "N", "D", "_", "D", "A", "T", "A", "_", "F", "O", "R", "M", "A", "T">>,
     <<"B", "E", "G", "I", "N", "_", "D", "A", "T", "A", "\t">>,
     END_DATA,
     <<"I", "D", " ", "L">>,
     <<"1", " ", "2", ".", "5">>,
     <<"x">>}

\* main, line 381: extract_keys_and_data is called with the identifier of
\* the run
ExtractInit ==
    /\ ConverterIdle
    /\ measurement_uuid \in UUIDs
    /\ LoaderIdle
    /\ FilesIdle
    /\ cpc = "extract"
    /\ cread = 0
    /\ keys_array = <<>>
    /\ values = <<>>
    /\ bdf = FALSE
    /\ keys_local = <<>>
    /\ data_local = <<>>
    /\ is_parsing_keys = FALSE
    /\ is_parsing_data = FALSE

ExtractNext ==
    \/ \E raw \in ExtractPool : ExtractLine(raw)
    \/ ExtractReturn

ExtractSpec == ExtractInit /\ [][ExtractNext]_vars

\* the cells convert_values is given: integers, floats with a bare leading
\* or trailing point, and texts neither pattern matches
CellPool ==
    {<<>>, <<" ">>, <<"7">>, <<"+", "0", "7">>, <<" ", "-", "7", "\t">>,
     <<"1", ".", "5">>, <<"-", ".", "5">>, <<"5", ".">>, <<"1", ".", "5", "0">>,
     <<".">>, <<"+">>, <<"1", "e", "3">>, <<"1", ".", "2", ".", "3">>,
     <<"1", " ", "2">>, <<" ", "x", " ">>, <<"7", "-">>}

KeyArrayPool ==
    {<<>>, <<<<"A">>>>, <<<<"A">>, <<"B">>>>, <<<<"A">>, <<"A">>>>,
     <<<<"A">>, <<"B">>, <<"C">>>>}

\* convert_values is called with a key list and a list of cells
ConvertInit ==
    /\ ConverterIdle
    /\ measurement_uuid = <<>>
    /\ LoaderIdle
    /\ FilesIdle
    /\ cpc = "convert"
    /\ cread = 0
    /\ keys_array = <<>>
    /\ values \in UNION {[1..n -> CellPool] : n \in 0..MaxCells}
    /\ bdf = FALSE
    /\ keys_local \in KeyArrayPool
    /\ data_local = <<>>
    /\ is_parsing_keys = FALSE
    /\ is_parsing_data = FALSE

\* lines 150-164 on the key list keys_local and the cells values; the
\* record is kept in data_local
ConvertValues ==
    /\ cpc = "convert"
    /\ data_local' = <<convert_values(keys_local, values)>>
    /\ cpc' = "converted"
    /\ UNCHANGED <<cread, keys_array, values, bdf, keys_local, is_parsing_keys,
                   is_parsing_data>>
    /\ UNCHANGED <<pc, nread, line, in_df, in_data, descriptive, keys,
                   buffer_after_begin_data, ri, rows, measurement_uuid, payload,
                   form, loaderVars, fileVars>>

ConvertNext == ConvertValues

ConvertSpec == ConvertInit /\ [][ConvertNext]_vars

----------------------------------------------------------------------------
(* The output file of App.process (cgatsToJsonGUI.py) *)

\* one character of str.lower
LowerChar(c) ==
    IF c \in SeqRange(UpperLetters)
    THEN LowerLetters[CHOOSE i \in 1..Len(UpperLetters) : UpperLetters[i] = c]
    ELSE c

\* str.lower
Lower(s) == [i \in 1..Len(s) |-> LowerChar(s[i])]

\* INVALID_CHARS
INVALID_CHARS == {"<", ">", ":", "\"", "/", "\\", "|", "?", "*"}

\* RESERVED_BASENAMES
RESERVED_BASENAMES ==
    {<<"C", "O", "N">>, <<"P", "R", "N">>, <<"A", "U", "X">>, <<"N", "U", "L">>}
    \cup {<<"C", "O", "M", Digits[i + 1]>> : i \in 1..9}
    \cup {<<"L", "P", "T", Digits[i + 1]>> : i \in 1..9}

JSON_EXT == <<".", "j", "s", "o", "n">>

\* invalid_re.sub("_", basename)
ReplaceInvalid(s) ==
    [i \in 1..Len(s) |-> IF s[i] \in INVALID_CHARS THEN "_" ELSE s[i]]

\* the position of the last c in s, 0 if there is none (str.rpartition,
\* str.rfind)
RFind(s, c) ==
    IF c \in SeqRange(s)
    THEN CHOOSE i \in 1..Len(s) : s[i] = c /\ \A j \in (i + 1)..Len(s) : s[j] # c
    ELSE 0

\* lines 228-235: the stem the extension .json is put after
FinalStem(basename) ==
    LET i == RFind(basename, ".") IN
    IF i > 0 /\ Lower(SubSeq(basename, i + 1, Len(basename))) = Tail(JSON_EXT)
    THEN SubSeq(basename, 1, i - 1)
    ELSE basename

\* sanitize_filename: the clean name and the modified flag
sanitize_filename(name) ==
    LET named    == IF name = <<>> THEN <<"M", "e", "a", "s", "u", "r", "e", "m", "e", "n", "t", ".", "j", "s", "o",
  "n">> ELSE name
        replaced == ReplaceInvalid(named)
        cleaned  == StripChars(replaced, {" ", "."})
        basename == IF cleaned = <<>> THEN <<"M", "e", "a", "s", "u", "r", "e", "m", "e", "n", "t">> ELSE cleaned
        stem     == FinalStem(basename)
        reserved == Upper(stem) \in RESERVED_BASENAMES
    IN  [clean_name |-> (IF reserved THEN stem \o <<"_", "1">> ELSE stem) \o JSON_EXT,
         modified   |-> \/ name = <<>>
                        \/ replaced # named
                        \/ cleaned # replaced
                        \/ cleaned = <<>>
                        \/ reserved]

\* Path.suffix of a file name: from the last dot on, unless that dot is the
\* first or the last character
PathSuffix(name) ==
    LET i == RFind(name, ".") IN
    IF 1 < i /\ i < Len(name) THEN SubSeq(name, i, Len(name)) ELSE <<>>

\* Path.stem
PathStem(name) == SubSeq(name, 1, Len(name) - Len(PathSuffix(name)))

\* next_available_path from the candidate with number i on
RECURSIVE NextAvailableFrom(_, _, _)
NextAvailableFrom(name, present, i) ==
    LET candidate == PathStem(name) \o <<"_">> \o IntToStr(i) \o PathSuffix(name) IN
    IF candidate \notin present THEN candidate
    ELSE NextAvailableFrom(name, present, i + 1)

\* next_available_path, for the file names present in the folder
next_available_path(name, present) == NextAvailableFrom(name, present, 1)

\* default_output_name, line 276
default_output_name == <<"M", "e", "a", "s", "u", "r", "e", "m", "e", "n", "t",
                         "_", "t", "0", ".", "j", "s", "o", "n">>

\* on_filename_change, lines 388-397, with the write it makes to the field
\* (which runs the callback once more) and the output_path property it
\* reads: the field and the name the application holds after name was
\* written to the field
RECURSIVE on_filename_change(_)
on_filename_change(name) ==
    LET stripped == Strip(name)
        r        == sanitize_filename(stripped)
    IN  IF r.modified THEN on_filename_change(r.clean_name)
        ELSE [filename_var |-> name, output_filename |-> stripped]

\* the output_path property, lines 301-307: the name held is sanitized
\* (the default name if it is blank) and adopted if modified; the path is
\* output_folder / output_filename
output_path(field) ==
    LET name == IF Strip(field.output_filename) # <<>>
                THEN Strip(field.output_filename) ELSE default_output_name
        r    == sanitize_filename(name)
    IN  IF r.modified THEN on_filename_change(r.clean_name) ELSE field

\* the user writes name into the filename field
TypeFilename(name) ==
    /\ fpc = "ready"
    /\ LET r == on_filename_change(name) IN
       /\ filename_var' = r.filename_var
       /\ output_filename' = r.output_filename
    /\ UNCHANGED <<fpc, replace_all_var, exists, overwrite, target_path>>
    /\ UNCHANGED <<pc, nread, line, in_df, in_data, descriptive, keys,
                   buffer_after_begin_data, ri, rows, measurement_uuid, payload,
                   form, loaderVars, cliVars>>

\* the user ticks or unticks the session-wide replace option, line 384
ToggleReplaceAll ==
    /\ fpc = "ready"
    /\ replace_all_var' = ~replace_all_var
    /\ UNCHANGED <<fpc, filename_var, output_filename, exists, overwrite,
                   target_path>>
    /\ UNCHANGED <<pc, nread, line, in_df, in_data, descriptive, keys,
                   buffer_after_begin_data, ri, rows, measurement_uuid, payload,
                   form, loaderVars, cliVars>>

\* App.process, lines 449-475 and 506-508, of a run that reads, parses and
\* writes without an error: the name is sanitized, the user is asked when
\* the target exists and the replace option is off (answer is what the
\* user says), and the payload is written to the target
ProcessFile(answer) ==
    /\ fpc = "ready"
    /\ LET r      == sanitize_filename(Strip(filename_var))
           field  == IF r.modified THEN on_filename_change(r.clean_name)
                     ELSE [filename_var |-> filename_var,
                           output_filename |-> output_filename]
           held   == output_path(field)
           target == held.output_filename
           asked  == target \in exists /\ ~replace_all_var
       IN  IF asked /\ ~answer
           THEN LET new_path == next_available_path(target, exists)
                    renamed  == on_filename_change(new_path)
                IN  /\ overwrite' = "no"
                    /\ filename_var' = renamed.filename_var
                    /\ output_filename' = renamed.output_filename
                    /\ target_path' = new_path
                    /\ exists' = exists \cup {new_path}
           ELSE /\ overwrite' = IF asked THEN "yes" ELSE "unasked"
                /\ filename_var' = held.filename_var
                /\ output_filename' = held.output_filename
                /\ target_path' = target
                /\ exists' = exists \cup {target}
    /\ fpc' = "written"
    /\ UNCHANGED replace_all_var
    /\ UNCHANGED <<pc, nread, line, in_df, in_data, descriptive, keys,
                   buffer_after_begin_data, ri, rows, measurement_uuid, payload,
                   form, loaderVars, cliVars>>

\* the names typed into the filename field
TypedNames ==
    {<<>>, <<"a">>, <<"a", ".", "j", "s", "o", "n">>, <<" ", "a", ".", "J", "S", "O", "N">>, <<"a", ".", "t", "x", "t">>,
     <<"c", "o", "n">>, <<"a", ":", "b">>, <<".", "a", ".">>, <<"a", "_", "1", ".", "j", "s", "o", "n">>}

\* the files that can be in the output folder before the run
DiskNames ==
    {<<"a">>, <<"a", "_", "1">>, <<"a", ".", "j", "s", "o", "n">>,
     <<"a", "_", "1", ".", "j", "s", "o", "n">>, <<"a", "_", "2", ".", "j", "s", "o", "n">>, <<"a", ".", "J", "S", "O", "N">>}

\* the window is built (lines 276-285, 354, 383): the field holds the
\* default name, the replace option is off
FileInit ==
    /\ ConverterIdle
    /\ measurement_uuid = <<>>
    /\ LoaderIdle
    /\ CliIdle
    /\ fpc = "ready"
    /\ filename_var = default_output_name
    /\ output_filename = default_output_name
    /\ replace_all_var = FALSE
    /\ exists \in SUBSET DiskNames
    /\ overwrite = "unasked"
    /\ target_path = <<>>

FileNext ==
    \/ \E name \in TypedNames : TypeFilename(name)
    \/ ToggleReplaceAll
    \/ \E answer \in BOOLEAN : ProcessFile(answer)

FileSpec == FileInit /\ [][FileNext]_vars

----------------------------------------------------------------------------
(* Vocabulary of the properties *)

\* parse_cgats_text has returned its ParseResult
Parsed == pc \in {"parsed", "done"}

\* parse_cgats_text returns its ParseResult
Returns == pc = "parsed"

\* no name occurs twice in the sequence ks
Distinct(ks) == \A i, j \in 1..Len(ks) : ks[i] = ks[j] => i = j

\* a data-section line that is neither blank nor a comment
IsDataLine(l) ==
    LET u == Strip(l) IN u # <<>> /\ ~COMMENT_RE(u)

\* index of the first buffered line that starts with END_DATA, or one past
\* the end of the buffer
FirstEndData(buf) ==
    LET E == {i \in 1..Len(buf) : StartsWith(Upper(Strip(buf[i])), END_DATA)} IN
    IF E = {} THEN Len(buf) + 1
    ELSE CHOOSE i \in E : \A j \in E : i <= j

\* the data lines of the buffer: the non-blank, non-comment lines before
\* the first END_DATA line, in input order
DataLines(buf) == SelectSeq(SubSeq(buf, 1, FirstEndData(buf) - 1), IsDataLine)

----------------------------------------------------------------------------
(* C1 *)

\* C1 as stated: every row of the returned ParseResult has exactly
\* len(keys) entries.
C1_RowHasLenKeysEntries ==
    Returns => \A i \in 1..Len(rows) : Cardinality(DOMAIN rows[i]) = Len(keys)

\* C1 amended: every row of the returned ParseResult has one entry per
\* distinct name of keys (short rows padded, long rows truncated), which
\* is len(keys) entries when no name occurs twice in keys.
C1_RowHasDistinctKeysEntries ==
    Returns =>
        \A i \in 1..Len(rows) :
            /\ DOMAIN rows[i] = SeqRange(keys)
            /\ Distinct(keys) => Cardinality(DOMAIN rows[i]) = Len(keys)

\* a short row was padded under three distinct declared keys
C1_Witness ==
    /\ pc = "parsed"
    /\ Len(keys) = 3
    /\ Distinct(keys)
    /\ Len(rows) = 1
    /\ Len(DataLines(buffer_after_begin_data)) = 1
    /\ Len(Split(DataLines(buffer_after_begin_data)[1])) = 2

----------------------------------------------------------------------------
(* C2 *)

\* C2: after one conversion run MEASUREMENT_ID of descriptive_data and
\* MEASUREMENT_ID of every measurement_data row are the run's identifier.
C2_SharedJoinKey ==
    pc = "done" =>
        /\ MEASUREMENT_ID \in DOMAIN payload.descriptive_data
        /\ payload.descriptive_data[MEASUREMENT_ID] = measurement_uuid
        /\ \A i \in 1..Len(payload.measurement_data) :
               /\ MEASUREMENT_ID \in DOMAIN payload.measurement_data[i]
               /\ payload.measurement_data[i][MEASUREMENT_ID] = measurement_uuid

----------------------------------------------------------------------------
(* C3 *)

\* position of the parser: the phases still ahead of it
PhasesLeft ==
    CASE pc = "scan" -> 3
      [] pc = "infer" -> 2
      [] pc = "rows" -> 1
      [] OTHER -> 0

\* the parser is in one of its loops, at a position from which the loop
\* takes its next iteration or ends
ParserCanStep ==
    \/ pc = "scan" /\ nread <= MaxLines
    \/ pc = "infer"
    \/ pc = "rows" /\ ri \in 1..(Len(buffer_after_begin_data) + 1)

\* C3: parse_cgats_text never ends in an error and always returns a
\* ParseResult, whatever lines the input holds: it is never in an error
\* state, until it has returned it always has a next step, and every step
\* before the return consumes an input line, consumes a buffered line or
\* moves to a later phase, so the return comes after finitely many steps.
C3_ParserAlwaysReturns ==
    /\ [](pc # "error")
    /\ [](~Parsed => ParserCanStep)
    /\ [][~Parsed =>
            \/ PhasesLeft' < PhasesLeft
            \/ pc' = pc /\ pc = "scan" /\ nread' = nread + 1
            \/ pc' = pc /\ pc = "rows" /\ ri' = ri + 1
                       /\ ri <= Len(buffer_after_begin_data)]_vars

\* the parser returned although the input had no format block, no END_DATA
\* marker and a row whose column count differs from the key count
C3_Witness ==
    /\ pc = "parsed"
    /\ nread = MaxLines
    /\ FirstEndData(buffer_after_begin_data) > Len(buffer_after_begin_data)
    /\ Len(rows) = 2
    /\ \E i \in 1..Len(buffer_after_begin_data) :
           /\ IsDataLine(buffer_after_begin_data[i])
           /\ Len(Split(buffer_after_begin_data[i])) # Len(keys)

----------------------------------------------------------------------------
(* C4 *)

\* the input is well formed with N = Len(keys) format keys: there is at
\* least one key and every data line has exactly N tokens
WellFormed ==
    LET DL == DataLines(buffer_after_begin_data) IN
    /\ Len(keys) >= 1
    /\ \A j \in 1..Len(DL) : Len(Split(DL[j])) = Len(keys)

\* C4 as stated: for a well-formed input with N format keys and M data rows
\* measurement_data has M entries, each with exactly N+1 keys.
C4_RowsHaveNPlusOneKeys ==
    pc = "done" /\ WellFormed =>
        /\ Len(payload.measurement_data) = Len(DataLines(buffer_after_begin_data))
        /\ \A i \in 1..Len(payload.measurement_data) :
               Cardinality(DOMAIN payload.measurement_data[i]) = Len(keys) + 1

\* C4 amended: for a well-formed input with N format keys and M data rows
\* measurement_data has M entries, each keyed by the distinct declared
\* column names plus MEASUREMENT_ID; that is N+1 keys when no column name
\* is declared twice and none is MEASUREMENT_ID.
C4_RowsHaveDeclaredKeysAndId ==
    pc = "done" /\ WellFormed =>
        /\ Len(payload.measurement_data) = Len(DataLines(buffer_after_begin_data))
        /\ \A i \in 1..Len(payload.measurement_data) :
               /\ DOMAIN payload.measurement_data[i] = SeqRange(keys) \cup {MEASUREMENT_ID}
               /\ Distinct(keys) /\ MEASUREMENT_ID \notin SeqRange(keys) =>
                      Cardinality(DOMAIN payload.measurement_data[i]) = Len(keys) + 1

\* a payload of one row with three keys, from two declared columns A, B
\* and one data line of two tokens
C4_Witness ==
    /\ pc = "done"
    /\ WellFormed
    /\ keys = << <<"A">>, <<"B">> >>
    /\ Len(payload.measurement_data) = 1
    /\ Cardinality(DOMAIN payload.measurement_data[1]) = 3

----------------------------------------------------------------------------
(* C5 *)

\* parse_rows is about to process a data line whose token count differs
\* from the key count
RaggedLineNext ==
    /\ pc = "rows"
    /\ ri <= Len(buffer_after_begin_data)
    /\ IsDataLine(buffer_after_begin_data[ri])
    /\ ri < FirstEndData(buffer_after_begin_data)
    /\ Len(Split(buffer_after_begin_data[ri])) # Len(keys)

\* the cell the claim expects at position i of the row of line l: the
\* i-th token, or the empty string past the last token
ExpectedCell(l, i) ==
    IF i <= Len(Split(l)) THEN Split(l)[i] ELSE <<>>

\* C5 as stated: a line whose token count differs from the key count N
\* yields exactly one row, which holds at every position i <= N the i-th
\* token (the empty string past the last token): tokens positionally with
\* empty trailing cells when short, exactly the first N tokens when long.
C5_RaggedRowHoldsTokensPositionally ==
    [][RaggedLineNext =>
        /\ Len(rows') = Len(rows) + 1
        /\ SubSeq(rows', 1, Len(rows)) = rows
        /\ \A i \in 1..Len(keys) :
               /\ keys[i] \in DOMAIN rows'[Len(rows')]
               /\ rows'[Len(rows')][keys[i]]
                      = ExpectedCell(buffer_after_begin_data[ri], i)]_vars

\* C5 amended: a line whose token count differs from the key count N is
\* never rejected and yields exactly one row, keyed by the names of keys;
\* at every position i <= N whose name does not occur again later in keys
\* the row holds the i-th token (the empty string past the last token).
C5_RaggedRowHoldsLastOccurrences ==
    [][RaggedLineNext =>
        /\ Len(rows') = Len(rows) + 1
        /\ SubSeq(rows', 1, Len(rows)) = rows
        /\ DOMAIN rows'[Len(rows')] = SeqRange(keys)
        /\ \A i \in 1..Len(keys) :
               (\A j \in (i + 1)..Len(keys) : keys[j] # keys[i]) =>
                   rows'[Len(rows')][keys[i]]
                       = ExpectedCell(buffer_after_begin_data[ri], i)]_vars

\* a line of two tokens became a row under three declared keys, its third
\* cell empty
C5_Witness ==
    /\ pc = "rows"
    /\ ri = 2
    /\ keys = << MEASUREMENT_ID, <<"2">>, <<"3">> >>
    /\ buffer_after_begin_data[1] = TwoTokens
    /\ Len(rows) = 1
    /\ rows[1][MEASUREMENT_ID] = <<"a">>
    /\ rows[1][<<"2">>] = <<"b">>
    /\ rows[1][<<"3">>] = <<>>

----------------------------------------------------------------------------
(* C6 *)

\* the names C1, C2, ... as the claim writes them
CNames == << <<"C", "1">>, <<"C", "2">>, <<"C", "3">>, <<"C", "4">>, <<"C", "5">> >>

\* the buffered lines that are non-blank, not a comment and do not start
\* with END_DATA
InferenceLines(buf) ==
    {i \in 1..Len(buf) :
        IsDataLine(buf[i]) /\ ~StartsWith(Upper(Strip(buf[i])), END_DATA)}

\* C6: if the key list is empty after the header/format pass, keys becomes
\* C1..Cn with n the token count of the first buffered line that is
\* non-blank, not a comment and does not start with END_DATA; a non-empty
\* key list is left as it is.
C6_KeysInferredFromFirstDataLine ==
    [][pc = "infer" /\ pc' = "rows" =>
        LET E == InferenceLines(buffer_after_begin_data) IN
        /\ keys # <<>> => keys' = keys
        /\ keys = <<>> /\ E # {} =>
               LET first == CHOOSE i \in E : \A j \in E : i <= j
                   n     == Len(Split(buffer_after_begin_data[first]))
               IN  keys' = SubSeq(CNames, 1, n)]_vars

\* keys C1..C3 were inferred from a three-token line that follows a
\* comment line and a blank line in the data section
C6_Witness ==
    /\ pc = "rows"
    /\ ri = 1
    /\ buffer_after_begin_data = <<CommentLine, BlankLine, ThreeTokens>>
    /\ keys = << <<"C", "1">>, <<"C", "2">>, <<"C", "3">> >>

----------------------------------------------------------------------------
(* C7 *)

\* the first non-whitespace characters of s are #, //, ; or *
IsCommentText(s) ==
    \E i \in 1..Len(s) :
        /\ \A j \in 1..(i - 1) : s[j] \in {" ", "\t"}
        /\ \/ s[i] \in {"#", ";", "*"}
           \/ s[i] = "/" /\ i < Len(s) /\ s[i + 1] = "/"

\* the buffer without its comment lines
WithoutComments(buf) == SelectSeq(buf, LAMBDA l : ~IsCommentText(l))

\* C7: a comment line contributes nothing.  Read by the scanner in any
\* section it leaves descriptive, keys and the section state unchanged;
\* key inference yields the keys it yields without the comment lines; and
\* parse_rows emits no row for it.
C7_CommentLinesContributeNothing ==
    [][/\ pc = "scan" /\ nread' = nread + 1 /\ IsCommentText(line') =>
              /\ descriptive' = descriptive
              /\ keys' = keys
              /\ in_df' = in_df
              /\ in_data' = in_data
              /\ rows' = rows
       /\ pc = "infer" /\ pc' = "rows" =>
              keys' = ResolveKeys(keys, WithoutComments(buffer_after_begin_data))
       /\ (/\ pc = "rows"
           /\ ri <= Len(buffer_after_begin_data)
           /\ IsCommentText(buffer_after_begin_data[ri])) =>
              /\ rows' = rows
              /\ pc' = "rows"]_vars

\* a comment line was read in the data-format section after a header entry
\* and two keys had been stored
C7_Witness ==
    /\ pc = "scan"
    /\ in_df
    /\ ~in_data
    /\ line = CommentLine
    /\ nread = 4
    /\ keys = << <<"A">>, <<"B">> >>
    /\ DOMAIN descriptive = { <<"A">> }

----------------------------------------------------------------------------
(* C8 *)

\* C8: parse_rows stops at the first buffered line that starts with
\* END_DATA: the rows are, in input order, the rows of the non-blank,
\* non-comment lines before that line, and nothing else.
C8_RowsAreLinesBeforeEndData ==
    Returns =>
        LET DL == DataLines(buffer_after_begin_data) IN
        rows = [j \in 1..Len(DL) |-> MakeRow(keys, Strip(DL[j]))]

\* one row came out of a data line, an END_DATA line and a further data line
C8_Witness ==
    /\ pc = "parsed"
    /\ buffer_after_begin_data = <<TwoTokens, EndDataLine, ThreeTokens>>
    /\ ri = 2
    /\ Len(rows) = 1

----------------------------------------------------------------------------
(* C9 *)

\* the scanner reads the next line in HEADER state
ReadsInHeader == pc = "scan" /\ nread' = nread + 1 /\ ~in_df /\ ~in_data

\* the line is one the header branch matches against the key/value
\* pattern: not blank, not a comment, not a BEGIN_DATA marker
IsHeaderText(l) ==
    /\ Strip(l) # <<>>
    /\ ~IsCommentText(l)
    /\ ~StartsWith(Upper(Strip(l)), BEGIN_DATA)

\* s has no lower-case letter
IsUpperCased(s) == \A i \in 1..Len(s) : s[i] \notin SeqRange(LowerLetters)

\* s neither starts nor ends with whitespace
IsTrimmed(s) == s = <<>> \/ (s[1] \notin {" ", "\t"} /\ s[Len(s)] \notin {" ", "\t"})

\* C9: descriptive is populated only from lines read in HEADER state.  A
\* header line that matches the key/value pattern stores the upper-cased
\* key with the trimmed value, replacing any earlier value of that key and
\* nothing else; every other line, and every line read in DATA_FORMAT or
\* DATA state, leaves descriptive unchanged.
C9_DescriptiveOnlyFromHeader ==
    [][pc = "scan" /\ nread' = nread + 1 =>
        LET m == CGATS_KV_RE(line') IN
        IF ReadsInHeader /\ IsHeaderText(line') /\ m.matched
        THEN /\ DOMAIN descriptive' = DOMAIN descriptive \cup {Upper(m.k)}
             /\ descriptive'[Upper(m.k)] = Strip(m.v)
             /\ IsUpperCased(Upper(m.k))
             /\ IsTrimmed(descriptive'[Upper(m.k)])
             /\ \A k \in DOMAIN descriptive :
                    k # Upper(m.k) => descriptive'[k] = descriptive[k]
        ELSE descriptive' = descriptive]_vars

\* the line " A =y " was read in HEADER state and descriptive holds y under
\* the upper-cased key A, beside an entry of another header line
C9_Witness ==
    /\ pc = "scan"
    /\ ~in_df
    /\ ~in_data
    /\ nread = 3
    /\ line = KvLineAgain
    /\ descriptive = [k \in { <<"A">>, MEASUREMENT_ID } |->
                         IF k = <<"A">> THEN <<"y">> ELSE <<"m">>]

----------------------------------------------------------------------------
(* C10 *)

\* C10: enrichment only adds fields: every key parsing put into
\* descriptive keeps its parsed value in the enriched map.
C10_EnrichmentKeepsParsedValues ==
    [][pc = "parsed" /\ pc' = "done" =>
        \A k \in DOMAIN descriptive :
            k \in DOMAIN descriptive' /\ descriptive'[k] = descriptive[k]]_vars

----------------------------------------------------------------------------
(* C11 *)

\* C11: to_json sets MEASUREMENT_ID of every output row to the run's
\* identifier, overwriting any value the row already held under that key,
\* and leaves every other cell of the row and the input rows themselves
\* unchanged.
C11_ToJsonStampsEveryRow ==
    [][pc = "parsed" /\ pc' = "done" =>
        /\ rows' = rows
        /\ Len(payload'.measurement_data) = Len(rows)
        /\ \A i \in 1..Len(rows) :
               LET out == payload'.measurement_data[i] IN
               /\ DOMAIN out = DOMAIN rows[i] \cup {MEASUREMENT_ID}
               /\ out[MEASUREMENT_ID] = measurement_uuid'
               /\ \A k \in DOMAIN rows[i] \ {MEASUREMENT_ID} :
                      out[k] = rows[i][k]]_vars

\* MEASUREMENT_ID is a declared column: the row held the token a under it,
\* the output row holds the run's identifier there and the other cells as
\* they were
C11_Witness ==
    /\ pc = "done"
    /\ keys = << MEASUREMENT_ID, <<"2">>, <<"3">> >>
    /\ Len(rows) = 1
    /\ rows[1][MEASUREMENT_ID] = <<"a">>
    /\ payload.measurement_data[1][MEASUREMENT_ID] = measurement_uuid
    /\ measurement_uuid \in UUIDs
    /\ payload.measurement_data[1][<<"2">>] = <<"b">>
    /\ payload.measurement_data[1][<<"3">>] = <<>>

----------------------------------------------------------------------------
(* C12 *)

\* the form field holds nothing, or whitespace only
Unset(field) == \A i \in 1..Len(field) : field[i] \in {" ", "\t"}

\* C12: after enrichment the output descriptive_data contains
\* MEASUREMENT_ID, PARSED_DATE, PROJECT and TEMPLATE, and PROJECT
\* (TEMPLATE) is "NONE" whenever neither the parsed descriptive map holds
\* it nor the user has filled in the field.
C12_EnrichedFieldsPresent ==
    [][pc' = "done" =>
        LET out == payload'.descriptive_data IN
        /\ {MEASUREMENT_ID, PARSED_DATE, PROJECT, TEMPLATE} \subseteq DOMAIN out
        /\ (PROJECT \notin DOMAIN descriptive /\ Unset(form'.project)) =>
               out[PROJECT] = <<"N", "O", "N", "E">>
        /\ (TEMPLATE \notin DOMAIN descriptive /\ Unset(form'.template)) =>
               out[TEMPLATE] = <<"N", "O", "N", "E">>]_vars

\* the file supplied PARSED_DATE only, the Project field was empty and the
\* Template field held one blank: both fields are NONE in the output
C12_Witness ==
    /\ pc = "done"
    /\ form.project = <<>>
    /\ form.template = <<" ">>
    /\ DOMAIN payload.descriptive_data =
           {MEASUREMENT_ID, PARSED_DATE, PROJECT, TEMPLATE, MEASUREMENT_DATE}
    /\ payload.descriptive_data[PARSED_DATE] = <<"x">>
    /\ payload.descriptive_data[MEASUREMENT_ID] = measurement_uuid
    /\ payload.descriptive_data[PROJECT] = <<"N", "O", "N", "E">>
    /\ payload.descriptive_data[TEMPLATE] = <<"N", "O", "N", "E">>

----------------------------------------------------------------------------
(* C13 *)

\* C13: an enrichment run on a descriptive map that already contains
\* PROJECT, TEMPLATE and PARSED_DATE (from the file or from an earlier
\* run) leaves those three fields as they are, whatever the form holds.
C13_EnrichmentKeepsDefaults ==
    [][(/\ pc' = "done"
        /\ {PROJECT, TEMPLATE, PARSED_DATE} \subseteq DOMAIN descriptive) =>
           \A k \in {PROJECT, TEMPLATE, PARSED_DATE} :
               /\ k \in DOMAIN descriptive'
               /\ descriptive'[k] = descriptive[k]]_vars

\* a first run with an empty form set PROJECT and TEMPLATE to NONE and
\* PARSED_DATE to today; a second run with project P and template T has
\* left the three as they were
C13_Witness ==
    /\ pc = "done"
    /\ form.project = <<"P", " ">>
    /\ form.template = <<"T">>
    /\ descriptive[PROJECT] = <<"N", "O", "N", "E">>
    /\ descriptive[TEMPLATE] = <<"N", "O", "N", "E">>
    /\ descriptive[PARSED_DATE] = Today

----------------------------------------------------------------------------
(* C14 *)

\* C14: the load is atomic: whenever process_file fails for a payload
\* (duplicate pair, missing required field, or a row that cannot be
\* inserted), no descriptive record and no measurement row of that payload
\* remains committed in the database.
C14_FailedLoadLeavesNothing ==
    lpc = "raised" => db_descriptive = {} /\ db_measurement = {}

----------------------------------------------------------------------------
(* C15 *)

\* two rows of the payload would be stored under the same
\* (measurement_id, sample_id) key: every row gets the identifier of the
\* load, and their SAMPLE_ID cells are the same integer
SameKeyRows(measurements) ==
    \E i, j \in 1..Len(measurements) :
        /\ i # j
        /\ SAMPLE_ID \in DOMAIN measurements[i]
        /\ SAMPLE_ID \in DOMAIN measurements[j]
        /\ ~IntOf(measurements[i][SAMPLE_ID]).raised
        /\ ~IntOf(measurements[j][SAMPLE_ID]).raised
        /\ IntOf(measurements[i][SAMPLE_ID]).n = IntOf(measurements[j][SAMPLE_ID]).n

\* C15: every payload in which two rows would be stored under the same
\* (measurement_id, sample_id) key is rejected by the duplicate guard
\* before any record is inserted: the loader never gets past its
\* validation with such a payload.
C15_GuardRejectsSameKeyRows ==
    lpc \in {"insert_desc", "insert_rows", "closed"} =>
        ~SameKeyRows(data.measurement_data)

----------------------------------------------------------------------------
(* C16 *)

\* the scanner reads the next line
ReadsLine == pc = "scan" /\ nread' = nread + 1

\* the trimmed, case-folded text of l starts with the marker
HasMarker(l, marker) == StartsWith(Upper(Strip(l)), marker)

\* the line is stored nowhere
StoredNowhere ==
    /\ descriptive' = descriptive
    /\ keys' = keys
    /\ buffer_after_begin_data' = buffer_after_begin_data

\* C16: in HEADER state a non-comment line that starts with
\* BEGIN_DATA_FORMAT moves the scanner to DATA_FORMAT and not to DATA, and
\* a line that starts with BEGIN_DATA but not with BEGIN_DATA_FORMAT moves
\* it to DATA; the marker line is stored nowhere.
C16_HeaderMarkersLongerFirst ==
    [][ReadsInHeader /\ ~IsCommentText(line') =>
        /\ HasMarker(line', BEGIN_DATA_FORMAT) =>
               in_df' /\ ~in_data' /\ StoredNowhere
        /\ (HasMarker(line', BEGIN_DATA) /\ ~HasMarker(line', BEGIN_DATA_FORMAT)) =>
               ~in_df' /\ in_data' /\ StoredNowhere]_vars

\* " begin_data_format" was read in HEADER state after a key/value line:
\* the scanner is in DATA_FORMAT and holds the one header entry only
C16_Witness ==
    /\ pc = "scan"
    /\ nread = 2
    /\ line = BeginFormatLine
    /\ in_df
    /\ ~in_data
    /\ DOMAIN descriptive = { <<"A">> }
    /\ keys = <<>>
    /\ buffer_after_begin_data = <<>>

----------------------------------------------------------------------------
(* C17 *)

\* the scanner reads the next line in DATA_FORMAT state
ReadsInFormat == ReadsLine /\ in_df /\ ~in_data

\* C17: in DATA_FORMAT state a line starting with END_DATA_FORMAT returns
\* the scanner to HEADER and a line starting with BEGIN_DATA moves it to
\* DATA; the keys collected so far are kept in both cases and the line is
\* stored nowhere.
C17_FormatBlockCloses ==
    [][ReadsInFormat =>
        /\ HasMarker(line', END_DATA_FORMAT) =>
               ~in_df' /\ ~in_data' /\ keys' = keys /\ StoredNowhere
        /\ HasMarker(line', BEGIN_DATA) =>
               ~in_df' /\ in_data' /\ keys' = keys /\ StoredNowhere]_vars

\* a format block with the keys A, B was closed by END_DATA_FORMAT and the
\* key/value line after it is stored in descriptive again
C17_Witness ==
    /\ pc = "scan"
    /\ nread = 4
    /\ line = KvLine
    /\ ~in_df
    /\ ~in_data
    /\ keys = << <<"A">>, <<"B">> >>
    /\ descriptive = [k \in { <<"A">> } |-> <<"x">>]

----------------------------------------------------------------------------
(* C18 *)

\* C18: DATA is absorbing: once the scanner is in DATA state every line
\* it reads (blank, comment or marker too) is appended as it is to the
\* data buffer, the scanner stays in DATA state, and descriptive and keys
\* are unchanged.
C18_DataIsAbsorbing ==
    [][ReadsLine /\ in_data =>
        /\ buffer_after_begin_data' = Append(buffer_after_begin_data, line')
        /\ in_data'
        /\ ~in_df'
        /\ descriptive' = descriptive
        /\ keys' = keys]_vars

\* after BEGIN_DATA a blank line, a BEGIN_DATA_FORMAT line with its leading
\* blank and an END_DATA line with its trailing blank are in the buffer
C18_Witness ==
    /\ pc = "scan"
    /\ in_data
    /\ ~in_df
    /\ nread = 4
    /\ buffer_after_begin_data = <<BlankLine, BeginFormatLine, EndDataLine>>
    /\ keys = <<>>
    /\ descriptive = EmptyDict

----------------------------------------------------------------------------
(* C19 *)

\* the upper-cased whitespace tokens of l, in order
TokensUpper(l) ==
    LET t == Split(l) IN [i \in 1..Len(t) |-> Upper(t[i])]

\* a line of a format block that declares keys: not blank, not a comment
\* and not one of the markers that end the block
IsFormatText(l) ==
    /\ Strip(l) # <<>>
    /\ ~IsCommentText(l)
    /\ ~HasMarker(l, END_DATA_FORMAT)
    /\ ~HasMarker(l, BEGIN_DATA)

\* C19: keys is the concatenation, in input order, of the upper-cased
\* whitespace tokens of the non-blank, non-comment, non-marker lines read
\* in DATA_FORMAT state: keys is empty at the start, every such line
\* appends its tokens, duplicates included, and no other line read by the
\* scanner changes keys.
C19_KeysAreFormatTokens ==
    /\ (pc = "scan" /\ nread = 0) => keys = <<>>
    /\ [][ReadsLine =>
            IF in_df /\ ~in_data /\ IsFormatText(line')
            THEN keys' = keys \o TokensUpper(line')
            ELSE keys' = keys]_vars

\* five lines were read; keys holds the tokens of the lines "a b" and
\* "a A" in that order, the name A three times
C19_Witness ==
    /\ pc = "scan"
    /\ nread = 5
    /\ in_df
    /\ ~in_data
    /\ line = TwoSameTokens
    /\ keys = << <<"A">>, <<"B">>, <<"A">>, <<"A">> >>

----------------------------------------------------------------------------
(* C20 *)

\* C20: when keys holds the same name at two positions i < j (and at no
\* position after j), every row maps that name to the repaired token at
\* position j, the later occurrence: the j-th token of the line, or the
\* empty string when the line has fewer than j tokens.
C20_LaterDuplicateWins ==
    [][pc = "rows" /\ Len(rows') = Len(rows) + 1 =>
        LET row == rows'[Len(rows')] IN
        \A i, j \in 1..Len(keys) :
            (/\ i < j
             /\ keys[i] = keys[j]
             /\ \A k \in (j + 1)..Len(keys) : keys[k] # keys[j]) =>
                /\ keys[j] \in DOMAIN row
                /\ row[keys[j]] = ExpectedCell(buffer_after_begin_data[ri], j)]_vars

\* the format block declared A twice and the data line is "a b": the row
\* maps A to b, the second token
C20_Witness ==
    /\ pc = "rows"
    /\ keys = << <<"A">>, <<"A">> >>
    /\ buffer_after_begin_data = <<TwoTokens>>
    /\ ri = 2
    /\ rows = << [k \in { <<"A">> } |-> <<"b">>] >>


----------------------------------------------------------------------------
(* C21 *)

\* C21: every measurement record extract_keys_and_data emits for a data
\* line read after a format line carries the identifier of the run under
\* the key MEASUREMENT_ID.
C21_RecordsCarryMeasurementId ==
    \A i \in 1..Len(data_local) :
        data_local[i] # EmptyDict =>
            /\ MEASUREMENT_ID \in DOMAIN data_local[i]
            /\ data_local[i][MEASUREMENT_ID] = StrCell(measurement_uuid)

----------------------------------------------------------------------------
(* C22 *)

\* the MEASUREMENT_ID values the JSON file holds, in descriptive_data or in
\* a row
JsonIds ==
    LET Held(d) == IF MEASUREMENT_ID \in DOMAIN d /\ d[MEASUREMENT_ID] # <<>>
                   THEN {d[MEASUREMENT_ID]} ELSE {}
    IN  Held(data.descriptive_data)
        \cup UNION {Held(data.measurement_data[i]) :
                       i \in 1..Len(data.measurement_data)}

\* the identifier of the load: the one the JSON holds, else the caller's
LoadId == IF JsonIds = {} THEN CliGuid ELSE CHOOSE id \in JsonIds : TRUE

----------------------------------------------------------------------------
(* C23 *)

\* the number of positions of s that hold the character c
Count(s, c) == Cardinality({i \in 1..Len(s) : s[i] = c})

\* the text t without its sign, if it starts with one
SignFree(t) ==
    IF Len(t) > 0 /\ (t[1] = "+" \/ t[1] = "-") THEN SubSeq(t, 2, Len(t)) ELSE t

\* an optional sign and digits only
IsIntegerText(t) ==
    /\ Len(SignFree(t)) > 0
    /\ \A i \in 1..Len(SignFree(t)) : SignFree(t)[i] \in SeqRange(Digits)

\* an optional sign and digits with exactly one decimal point, the point
\* possibly leading or trailing
IsFloatText(t) ==
    /\ Count(SignFree(t), ".") = 1
    /\ Len(SignFree(t)) > 1
    /\ \A i \in 1..Len(SignFree(t)) : SignFree(t)[i] \in SeqRange(Digits) \cup {"."}

\* the kind of cell the trimmed text t becomes
KindOfText(t) ==
    IF IsIntegerText(t) THEN "int" ELSE IF IsFloatText(t) THEN "float" ELSE "str"

\* C23: convert_values classifies every cell after trimming it: a sign and
\* digits become an integer, a sign and digits with one decimal point a
\* float, every other text stays the (trimmed) string; the cells are paired
\* with the keys position by position, up to the shorter of the two lists,
\* the last cell of a repeated key being the one the record holds.
C23_CellsClassified ==
    cpc = "converted" =>
        LET record == data_local[1]
            n      == Min(Len(keys_local), Len(values))
        IN  /\ DOMAIN record = {keys_local[i] : i \in 1..n}
            /\ \A i \in 1..n :
                  (\A j \in (i + 1)..n : keys_local[j] # keys_local[i]) =>
                      LET t    == Strip(values[i])
                          cell == record[keys_local[i]]
                      IN  /\ cell.kind = KindOfText(t)
                          /\ cell.kind = "str" => cell.s = t

\* a record is returned that holds a float read from a text with a bare
\* trailing point and a string cell that was trimmed
C23_Witness ==
    /\ cpc = "converted"
    /\ keys_local = <<<<"A">>, <<"B">>>>
    /\ values = <<<<"5", ".">>, <<" ", "x", " ">>>>
    /\ data_local[1][<<"A">>] = FloatCell(5, 1)
    /\ data_local[1][<<"B">>] = StrCell(<<"x">>)

----------------------------------------------------------------------------
(* C24 *)

\* the canonical field names of the prefix table
CanonicalNames == {PrefixTable[i].key : i \in 1..Len(PrefixTable)}

\* what follows the first word of the header lines of the pool whose first
\* word matches no prefix
UnrecognizedValues ==
    {<<"B", "A", "R">>, <<"F", "O", "O", " ", "B", "A", "R">>, <<"M">>, <<"D">>}

\* C24: the map parse_descriptive_lines builds never holds a header line
\* whose first word matches no recognized prefix: its keys are canonical
\* field names of the prefix table, MEASUREMENT_ID, DATA_FORMAT or
\* MEASUREMENT_DATE, the values of the unrecognized lines are not in it, and
\* MEASUREMENT_ID holds the identifier of the run.
C24_OnlyRecognizedKeys ==
    /\ DOMAIN DescriptiveResult \subseteq
           CanonicalNames \cup {MEASUREMENT_ID, DATA_FORMAT, MEASUREMENT_DATE}
    /\ \A k \in DOMAIN DescriptiveResult :
           DescriptiveResult[k] \notin UnrecognizedValues
    /\ DescriptiveResult[MEASUREMENT_ID] = measurement_uuid

\* the map is returned after a recognized line was stored and the last
\* line read, 'foo: bar', was a header line with an unrecognized first word
C24_Witness ==
    /\ cpc = "described"
    /\ line = Upper(UnknownLine)
    /\ ~bdf
    /\ DATA_FORMAT \notin DOMAIN DescriptiveResult
    /\ DOMAIN DescriptiveResult \cap CanonicalNames # {}

----------------------------------------------------------------------------
(* C25 *)

\* C25: in no scanner state does a line whose trimmed, case-folded text
\* starts with BEGIN_DATA_FORMAT move the scanner into DATA state.
C25_FormatMarkerNeverStartsData ==
    [][ReadsLine /\ HasMarker(line', BEGIN_DATA_FORMAT) =>
        ~(~in_data /\ in_data')]_vars

----------------------------------------------------------------------------
(* C26 *)

\* C26: parse_cgats_text returns no empty row: with an empty resolved key
\* list (no declared keys, no line to infer from) rows is empty, and every
\* row returned has at least one entry.
C26_NoEmptyRow ==
    Returns =>
        /\ keys = <<>> => rows = <<>>
        /\ \A i \in 1..Len(rows) : DOMAIN rows[i] # {}

\* the data section held lines, none of them a line to infer keys from,
\* and the result has no keys and no rows
C26_Witness ==
    /\ pc = "parsed"
    /\ keys = <<>>
    /\ Len(buffer_after_begin_data) >= 2
    /\ rows = <<>>

----------------------------------------------------------------------------
(* C27 *)

\* the keys are C1..Cn for some n >= 1; no format line of the inputs
\* declares such names, so these are keys the fallback inference made
KeysAreInferred ==
    /\ keys # <<>>
    /\ Len(keys) <= Len(CNames)
    /\ \A i \in 1..Len(keys) : keys[i] = CNames[i]

\* C27: when the keys were synthesized by the fallback inference and a row
\* is returned, the first row is the row of the line the keys were inferred
\* from: it maps C1..Cn to the n tokens of the first data line, none
\* padded and none dropped.
C27_FirstRowIsInferenceLine ==
    (Returns /\ KeysAreInferred /\ rows # <<>>) =>
        LET tokens == Split(DataLines(buffer_after_begin_data)[1]) IN
        /\ Len(tokens) = Len(keys)
        /\ DOMAIN rows[1] = {CNames[i] : i \in 1..Len(tokens)}
        /\ \A i \in 1..Len(tokens) : rows[1][CNames[i]] = tokens[i]

\* keys C1, C2 were inferred from the line after a comment line, and the
\* rows of that line and of a later line with three tokens are returned
C27_Witness ==
    /\ pc = "parsed"
    /\ buffer_after_begin_data = <<HashComment, TwoTokens, ThreeTokens>>
    /\ keys = <<CNames[1], CNames[2]>>
    /\ Len(rows) = 2
    /\ rows[1] = [k \in {CNames[1], CNames[2]} |->
                     IF k = CNames[1] THEN <<"a">> ELSE <<"b">>]

----------------------------------------------------------------------------
(* C28 *)

\* C28: the payload the converter builds for any input file passes the
\* measurement-id extraction of the loader: the extraction does not raise
\* on it, neither for conflicting nor for invalid MEASUREMENT_ID values.
C28_LoaderAcceptsPayload ==
    pc = "done" =>
        ~extract_measurement_id_from_json(payload.descriptive_data,
                                          payload.measurement_data).raised

----------------------------------------------------------------------------
(* C29 *)

\* the name without its extension .json, if it ends with it
JsonStem(name) ==
    IF Len(name) >= Len(JSON_EXT)
       /\ SubSeq(name, Len(name) - Len(JSON_EXT) + 1, Len(name)) = JSON_EXT
    THEN SubSeq(name, 1, Len(name) - Len(JSON_EXT))
    ELSE name

\* stem_i.json for the target name
Numbered(name, i) == JsonStem(name) \o <<"_">> \o IntToStr(i) \o JSON_EXT

\* C29: when the target exists, the replace option is off and the user
\* declines to overwrite, the existing file is not written: the payload
\* goes to stem_i.json with the smallest i >= 1 for which no such file
\* existed, and the filename field holds that name.
C29_DeclinedOverwriteGoesToNumberedJson ==
    [][(fpc = "ready" /\ fpc' = "written" /\ overwrite' = "no") =>
        /\ target_path' \notin exists
        /\ exists' = exists \cup {target_path'}
        /\ \E i \in 1..(Cardinality(exists) + 1) :
              /\ target_path' = Numbered(output_filename, i)
              /\ \A j \in 1..(i - 1) : Numbered(output_filename, j) \in exists
        /\ filename_var' = target_path']_vars

----------------------------------------------------------------------------
(* C30 *)

\* C30: sanitize_filename reports modified = True whenever the clean name
\* it returns differs from the name it was given (here the trimmed content
\* of the filename field, as App.process passes it).
C30_ModifiedWheneverNameChanges ==
    LET name == Strip(filename_var)
        r    == sanitize_filename(name)
    IN  r.clean_name # name => r.modified

====
